---- MODULE Spec2Model ----
(***************************************************************************)
(* Model of ergo-solver: the proof-of-work nonce search (computePowNonce), *)
(* the PoW refresh policy (ensurePow), the 429 retry layer                 *)
(* (puzzleNewWithRetry, submitWithRetry), the interactive login recovery   *)
(* (ensureLoginInteractive) and the orchestration loop (runSolve).         *)
(*                                                                         *)
(* SpecPow  : one call of computePowNonce.                                 *)
(* Spec     : one run of runSolve.                                         *)
(***************************************************************************)
EXTENDS Integers, Sequences, FiniteSets, TLC

VARIABLES
    \* ---- computePowNonce (SpecPow) ----
    powPc,        \* "entry" | "check" | "hash" | "done"
    challenge,    \* the challenge string, a sequence of characters
    difficulty,   \* the difficulty argument
    ctxDone,      \* TRUE once the context is cancelled
    i,            \* the loop variable: index of the current candidate
    sum,          \* digest of the last candidate hashed, [0..31 -> 0..255]
    hashed,       \* the last input given to sha256.Sum256 (challenge+nonce)
    powResult,    \* [kind |-> "none"|"nonce"|"invalid"|"cancelled", nonce |-> digits]
    tested,       \* history: number of candidates hashed so far
    skipped,      \* history: TRUE once the search went past a candidate whose
                  \* digest has at least `difficulty` leading zero nibbles
    cancel,       \* history: when ctx was cancelled ("never" | "entry" |
                  \* "search") and how many candidates had been hashed by then
    missed        \* history: TRUE once a pass whose index is a multiple of
                  \* checkEvery went on to hash while ctx was cancelled

VARIABLES
    \* ---- runSolve (Spec) ----
    pc,           \* position in runSolve
    count,        \* --count, rewritten inside the loop in auto mode
    dryRun,       \* --dry-run
    autoLoop,     \* --auto
    solvedCount,
    cfg,          \* runSolve's appConfig: [Cookie, BaseURL]
    disk,         \* the config file: "absent" or [Cookie, BaseURL]
    client,       \* runSolve's apiClient: NilClient or [Cookie, BaseURL, jar]
    rotations,    \* history: how often the server has rotated the session cookie
    persist,      \* history: the last persistCookieIfChanged call
    result,       \* [status |-> "running"|"ok"|"error", why, err]
    \* ---- ensureLoginInteractive ----
    loginSite,    \* caller: "none" | "start" | "fetch" | "submit"
    prompts,      \* history: prompts shown in the current invocation
    validations,  \* history: who-am-I calls made in the current invocation
    loginTrace,   \* history: the events of the current invocation, in order
    \* ---- ensurePow ----
    powSite,      \* caller: "none" | "start" | "submit"
    now,          \* time.Now() in ensurePow, Unix milliseconds
    st,           \* the powStatusResponse held during ensurePow, or NoStatus
    chal,         \* the powChallengeResponse held during ensurePow: difficulty or -2
    \* ---- retry layer ----
    backoff,      \* the local backoff of the running retry call, seconds
    calls,        \* history: remote calls made by the current retry call
    sleeps,       \* history: sleep durations of the current retry call
    retryRet,     \* history: "none" | "ok" | "err", how the last retry call returned
    lastResp,     \* history: the last error of puzzleNew / puzzleSubmit, NoError on success
    lastCall,     \* history: the last puzzleNew / puzzleSubmit call issued
    \* ---- loop iteration ----
    pNew,         \* the ticket of this iteration: NoTicket or [id, DailyRemaining]
    answer,       \* the solver's answer: 0 or the id of the puzzle it answers
    sub,          \* the last puzzleSubmitResponse, or NoSub
    lastSolve,    \* history: how solver.Solve returned in this iteration
    quotaResp,    \* the dailyRemaining response dr, until the next remote call
    work,         \* history: the kinds of work the run has done so far
    tickets,      \* history: tickets handed out by the server so far
    lastSleep,    \* history: seconds slept by the last step outside the retry layer
    everSubmitted,\* history: TRUE once puzzleSubmit was called
    everPowBeforeSubmit, \* history: TRUE once ensurePow ran before a submit
    nCorrect,     \* history: submissions answered success=true, correct=true
    nDrySolved,   \* history: puzzles solved in dry-run
    count0,       \* history: the --count given on the command line
    remote,       \* history: the last remote call made and the error it returned;
                  \* an auth error of the who-am-I call inside
                  \* ensureLoginInteractive is consumed there and not kept
    powChecked,   \* history: ensurePow queried the PoW status since the last
                  \* puzzleNew / puzzleSubmit call, or since the run began
    powDone,      \* history: how the last ensurePow call returned, until the
                  \* next iteration starts or the solver is called
    pasted,       \* history: the cookie of the last prompt of the current
                  \* ensureLoginInteractive call whose material was saved,
                  \* "" if there was none
    saves,        \* history: writes of the config file made by the current
                  \* ensureLoginInteractive call
    rec           \* history: the auth-error recovery in progress

mainVars == <<pc, count, dryRun, autoLoop, solvedCount, cfg, disk, persist, client, rotations,
              result, loginSite, prompts, validations, loginTrace, powSite, now, st, chal,
              backoff, calls, sleeps, retryRet, lastResp, lastCall,
              pNew, answer, sub, lastSolve, quotaResp, work, tickets, lastSleep, everSubmitted, everPowBeforeSubmit,
              nCorrect, nDrySolved, count0, remote, powChecked, powDone, pasted, saves, rec>>

VARIABLES
    \* ---- spinner (SpecSpinner) ----
    spinner,      \* the struct: [active, stop, done], a channel being a
                  \* number and Nil the nil channel
    spin          \* the run around it:
                  \*   made: the channels made so far are 1..made
                  \*   closed: the channels that are closed
                  \*   pc: position of each calling goroutine in Start or Stop
                  \*   stopCh, doneCh: the locals of each caller's Stop
                  \*   anims: the animation goroutines started so far, in order
                  \*   panicked: "none", or the kind of channel whose second
                  \*     close crashed the process: "stop" | "done"

spinVars == <<spinner, spin>>

powVars == <<powPc, challenge, difficulty, ctxDone, i, sum, hashed, powResult,
             tested, skipped, cancel, missed>>

----------------------------------------------------------------------------
(* Bounds *)

\* the search is followed up to this candidate index
MaxNonce == 10

\* largest --count tried
MaxCount == 2

\* the server answers at most this many consecutive 429 to one retry call
Max429 == 5

\* the server hands out at most this many tickets in one run
MaxTickets == 2

\* the server rotates the session cookie at most this often in one run
MaxRotations == 1

\* Start gets past its `if s.active` check at most this often
MaxStarts == 2

\* each animation goroutine is followed through this many ticks
MaxTicks == 1

\* the search is followed through this many whole batches of checkEvery
\* candidates, and MaxNonce candidates into the next one
MaxBatches == 1

----------------------------------------------------------------------------
(* crypto/sha256 and strconv *)

Size == 32  \* sha256.Size

\* A digest with k leading zero bytes, then byte b, then 0xFF bytes.
Digest(k, b) == [j \in 0..(Size - 1) |-> IF j < k THEN 0 ELSE IF j = k THEN b ELSE 255]

\* sha256.Sum256 is a library function: its value on an input is any digest.
\* The inputs challenge+nonce of one search are pairwise distinct, so each
\* candidate's digest is an independent choice.  The digests considered for
\* difficulty d are those around the d-nibble boundary: one zero byte short,
\* exactly d \div 2 zero bytes with the next high nibble zero or not, one
\* zero byte more, and the all-zero digest.
Digests(d) ==
    { Digest(k, b) : k \in {(d \div 2) - 1, d \div 2, (d \div 2) + 1, Size} \cap 0..Size,
                     b \in {1, 16} }

\* The decimal digit characters
DigitChar == <<"0", "1", "2", "3", "4", "5", "6", "7", "8", "9">>

\* strconv.Itoa for n >= 0: the decimal string of n, as a sequence of characters
RECURSIVE Itoa(_)
Itoa(n) == IF n < 10 THEN <<DigitChar[n + 1]>>
           ELSE Itoa(n \div 10) \o <<DigitChar[(n % 10) + 1]>>

Challenges == { <<"a">>, <<"4", "2">> }

----------------------------------------------------------------------------
(* Errors and remote responses *)

\* an *apiError with its status code and message (a sequence of words)
ApiError(code, msg) == [api |-> TRUE, StatusCode |-> code, Message |-> msg]

\* any other error value: transport failure, parse failure, errors.New(...)
OtherError(what) == [api |-> FALSE, StatusCode |-> 0, Message |-> <<what>>]

NoError == [api |-> FALSE, StatusCode |-> 0, Message |-> <<>>]

\* the three server messages isDailyExhaustedError looks for
MarkUsedUp == "ci shu yi yong wan"
MarkCompleted == "yi wan cheng"
MarkTomorrow == "qing ming tian zai lai"

\* the errors a remote call can return (doJSON)
Errors ==
    { ApiError(429, <<>>),
      ApiError(401, <<>>),
      ApiError(403, <<"forbidden">>),
      ApiError(403, <<"jin ri", MarkUsedUp>>),
      ApiError(403, <<MarkCompleted>>),
      ApiError(403, <<MarkTomorrow>>),
      ApiError(500, <<MarkUsedUp>>),
      OtherError("request failed") }

\* strings.Contains on a message
Contains(msg, marker) == \E k \in 1..Len(msg) : msg[k] = marker

isAuthError_Only401(err) == err.api /\ err.StatusCode = 401

isAuthError(err) == err.api /\ (err.StatusCode = 401 \/ err.StatusCode = 403)

isDailyExhaustedError_FirstMarker(err) ==
    err.api /\ err.StatusCode = 403 /\ Contains(err.Message, MarkUsedUp)

isDailyExhaustedError(err) ==
    IF ~err.api \/ err.StatusCode # 403 THEN FALSE
    ELSE \/ Contains(err.Message, MarkUsedUp)
         \/ Contains(err.Message, MarkCompleted)
         \/ Contains(err.Message, MarkTomorrow)

\* errors.As(err, &ae) && ae.StatusCode == 429
isRateLimited_Never(err) == FALSE

isRateLimited_AnyStatus(err) == err.api

isRateLimited(err) == err.api /\ err.StatusCode = 429

\* if backoff < 30*time.Second { backoff *= 2 }
nextBackoff(b) == IF b < 30 THEN b * 2 ELSE b

----------------------------------------------------------------------------
(* Values of the run *)

appConfig(cookie, baseURL) == [Cookie |-> cookie, BaseURL |-> baseURL]
EmptyConfig == appConfig("", "")

NoDisk == [exists |-> FALSE, Cookie |-> "", BaseURL |-> ""]
OnDisk(c) == [exists |-> TRUE, Cookie |-> c.Cookie, BaseURL |-> c.BaseURL]

NilClient == [built |-> FALSE, Cookie |-> "", BaseURL |-> "", jar |-> ""]

\* newAPIClient: the jar is seeded with the configured cookie
apiClient(c) == [built |-> TRUE, Cookie |-> c.Cookie, BaseURL |-> c.BaseURL, jar |-> c.Cookie]

\* exportCookieHeader: the jar's cookies, or c.cookie when the jar holds none
exportCookieHeader(cl) == IF cl.jar = "" THEN cl.Cookie ELSE cl.jar

\* the session cookies the server sets when it rotates the session
RotatedCookie == <<"r1", "r2", "r3">>

\* doJSON after a response was read: the jar has taken the Set-Cookie headers
\* (a rotation, if the server made one) and c.cookie = exportCookieHeader()
afterExchange(cl, rot, n) ==
    LET c1 == IF rot THEN [cl EXCEPT !.jar = RotatedCookie[n + 1]] ELSE cl
    IN  [c1 EXCEPT !.Cookie = exportCookieHeader(c1)]

\* what the user pastes at a prompt: a cookie, optionally with a base URL
Pasted == { [Cookie |-> c, BaseURL |-> u] : c \in {"p1", "p2"}, u \in {"", "https://site"} }

NoStatus == [got |-> FALSE, HasValidPow |-> FALSE, PowExpiresAt |-> 0]
NoTicket == [id |-> 0, DailyRemaining |-> 0]
NoSub == [got |-> FALSE, Success |-> FALSE, Correct |-> FALSE, DailyRemaining |-> 0,
          Message |-> ""]
NoSolve == [err |-> "none", verify |-> "not run", how |-> "not called"]
NoQuota == [got |-> FALSE, Remaining |-> 0]
NoPersist == [ret |-> "none", jar |-> "", stored |-> ""]
NoRemote == [op |-> "none", err |-> NoError]
NoRec == [src |-> "none", solved |-> 0, cnt |-> 0, pid |-> 0, logins |-> 0, solves |-> 0]
NoCall == [kind |-> "none", pid |-> 0, ans |-> 0, solved |-> 0, cnt |-> 0,
           client |-> NilClient, rec |-> NoRec]

Running == [status |-> "running", why |-> "", err |-> NoError]
Stopped(why) == [status |-> "ok", why |-> why, err |-> NoError]
Failed(why, err) == [status |-> "error", why |-> why, err |-> err]

\* the values the main variables have while runSolve has not started
MainIdle ==
    /\ pc = "parse" /\ count \in {1} /\ dryRun = FALSE /\ autoLoop = FALSE
    /\ solvedCount = 0 /\ cfg = EmptyConfig /\ disk = NoDisk /\ client = NilClient
    /\ rotations = 0
    /\ result = Running /\ loginSite = "none" /\ prompts = 0 /\ validations = 0
    /\ powSite = "none" /\ now = 0 /\ st = NoStatus /\ chal = -2
    /\ backoff = 0 /\ calls = 0 /\ sleeps = <<>> /\ retryRet = "none"
    /\ lastResp = NoError /\ lastCall = NoCall
    /\ pNew = NoTicket /\ answer = 0 /\ sub = NoSub /\ tickets = 0
    /\ lastSleep = 0 /\ everSubmitted = FALSE /\ everPowBeforeSubmit = FALSE
    /\ nCorrect = 0 /\ nDrySolved = 0 /\ count0 = 1 /\ rec = NoRec
    /\ loginTrace = <<>> /\ persist = NoPersist /\ lastSolve = NoSolve
    /\ quotaResp = NoQuota /\ work = {}
    /\ remote = NoRemote /\ powChecked = FALSE /\ powDone = "none"
    /\ pasted = "" /\ saves = 0

\* the goroutines that call Start and Stop
Callers == {1, 2}

\* the nil channel
Nil == 0

\* the animation goroutines, in the order of their go statements
Anims == 1..MaxStarts

\* the positions of Start after its check of s.active
StartPcs == {"make_stop", "make_done", "go"}

\* newSpinner() on a terminal: no channel yet, nothing running
SpinIdle ==
    /\ spinner = [active |-> FALSE, stop |-> Nil, done |-> Nil]
    /\ spin = [made |-> 0, closed |-> {},
               pc |-> [t \in Callers |-> "idle"],
               stopCh |-> [t \in Callers |-> Nil],
               doneCh |-> [t \in Callers |-> Nil],
               anims |-> <<>>,
               panicked |-> "none"]

----------------------------------------------------------------------------
(* hasLeadingZeroNibbles *)

\* b & 0xF0
AndF0(b) == (b \div 16) * 16

\* the loop `for i := 0; i < fullZeroBytes; i++ { if sum[i] != 0 { return false } }`
RECURSIVE ZeroBytesFrom(_, _, _)
ZeroBytesFrom(s, j, fullZeroBytes) ==
    IF j < fullZeroBytes
    THEN IF s[j] # 0 THEN FALSE ELSE ZeroBytesFrom(s, j + 1, fullZeroBytes)
    ELSE TRUE

hasLeadingZeroNibbles_NoHalf(s, fullZeroBytes, halfNibble) ==
    ZeroBytesFrom(s, 0, fullZeroBytes)

hasLeadingZeroNibbles(s, fullZeroBytes, halfNibble) ==
    IF ~ZeroBytesFrom(s, 0, fullZeroBytes) THEN FALSE
    ELSE IF halfNibble THEN AndF0(s[fullZeroBytes]) = 0
    ELSE TRUE

\* the indexes of sum that the loop of hasLeadingZeroNibbles reads from j on
RECURSIVE ReadByLoop(_, _, _)
ReadByLoop(s, j, fullZeroBytes) ==
    IF j < fullZeroBytes
    THEN {j} \cup (IF j \notin DOMAIN s \/ s[j] # 0 THEN {}
                   ELSE ReadByLoop(s, j + 1, fullZeroBytes))
    ELSE {}

\* the indexes of sum that one call of hasLeadingZeroNibbles reads
IndexesRead(s, fullZeroBytes, halfNibble) ==
    ReadByLoop(s, 0, fullZeroBytes) \cup
    (IF halfNibble /\ ReadByLoop(s, 0, fullZeroBytes) \subseteq DOMAIN s
                  /\ ZeroBytesFrom(s, 0, fullZeroBytes)
     THEN {fullZeroBytes} ELSE {})

----------------------------------------------------------------------------
(* Measures on digests and nonces used to state the properties *)

\* hex nibble j (0..63) of the digest, most significant first
Nibble(s, j) == IF j % 2 = 0 THEN s[j \div 2] \div 16 ELSE s[j \div 2] % 16

RECURSIVE ZeroNibblesFrom(_, _)
ZeroNibblesFrom(s, j) ==
    IF j < 2 * Size /\ Nibble(s, j) = 0 THEN 1 + ZeroNibblesFrom(s, j + 1) ELSE 0

\* number of leading zero hex nibbles of the digest
LeadingZeroNibbles(s) == ZeroNibblesFrom(s, 0)

DigitVal(c) == CHOOSE v \in 0..9 : DigitChar[v + 1] = c

\* value of a non-empty decimal string
RECURSIVE Atoi(_)
Atoi(str) == IF Len(str) = 1 THEN DigitVal(str[1])
             ELSE 10 * Atoi(SubSeq(str, 1, Len(str) - 1)) + DigitVal(str[Len(str)])

----------------------------------------------------------------------------
(* computePowNonce *)

checkEvery == 100000

\* ctx was never cancelled
NoCancel == [sig |-> "never", tested |-> 0]

PowInit ==
    /\ MainIdle
    /\ SpinIdle
    /\ powPc = "entry"
    /\ challenge \in Challenges
    /\ difficulty \in -1..65
    /\ ctxDone \in BOOLEAN
    /\ i = 0
    /\ sum = Digest(0, 255)
    /\ hashed = <<>>
    /\ powResult = [kind |-> "none", nonce |-> <<>>]
    /\ tested = 0
    /\ skipped = FALSE
    /\ cancel = IF ctxDone THEN [sig |-> "entry", tested |-> 0] ELSE NoCancel
    /\ missed = FALSE

invalidDifficulty_Above65(d) == d < 0 \/ d > 65

\* difficulty < 0 || difficulty > 64
invalidDifficulty(d) == d < 0 \/ d > 64

\* if difficulty < 0 || difficulty > 64 { return "", fmt.Errorf(...) }
PowEntry ==
    /\ powPc = "entry"
    /\ IF invalidDifficulty(difficulty)
       THEN /\ powPc' = "done"
            /\ powResult' = [kind |-> "invalid", nonce |-> <<>>]
       ELSE /\ powPc' = "check"
            /\ UNCHANGED powResult
    /\ UNCHANGED <<challenge, difficulty, ctxDone, i, sum, hashed, tested, skipped>>
    /\ UNCHANGED <<cancel, missed>>
    /\ UNCHANGED <<mainVars, spinVars>>

pollsCtx_AfterFirst(n) == n % checkEvery = 0 /\ n > 0

\* if i%checkEvery == 0 { select { case <-ctx.Done(): ... default: } }
pollsCtx(n) == n % checkEvery = 0

\* top of the loop body: every checkEvery candidates, poll ctx.Done()
PowCheckCtx ==
    /\ powPc = "check"
    /\ IF pollsCtx(i) /\ ctxDone
       THEN /\ powPc' = "done"
            /\ powResult' = [kind |-> "cancelled", nonce |-> <<>>]
            /\ UNCHANGED missed
       ELSE /\ powPc' = "hash"
            /\ missed' = (missed \/ (i % checkEvery = 0 /\ ctxDone))
            /\ UNCHANGED powResult
    /\ UNCHANGED <<challenge, difficulty, ctxDone, i, sum, hashed, tested, skipped>>
    /\ UNCHANGED cancel
    /\ UNCHANGED <<mainVars, spinVars>>

\* nonce := strconv.Itoa(i); sum := sha256.Sum256(challenge + nonce);
\* return nonce if hasLeadingZeroNibbles, else i++
PowHash ==
    /\ powPc = "hash"
    /\ i % checkEvery <= MaxNonce
    /\ \E s \in Digests(difficulty) :
        LET nonce == Itoa(i)
            fullZeroBytes == difficulty \div 2
            halfNibble == (difficulty % 2 = 1)
        IN  /\ sum' = s
            /\ hashed' = challenge \o nonce
            /\ tested' = tested + 1
            /\ IF hasLeadingZeroNibbles(s, fullZeroBytes, halfNibble)
               THEN /\ powPc' = "done"
                    /\ powResult' = [kind |-> "nonce", nonce |-> nonce]
                    /\ UNCHANGED <<i, skipped>>
               ELSE /\ powPc' = "check"
                    /\ i' = i + 1
                    /\ skipped' = (skipped \/ LeadingZeroNibbles(s) >= difficulty)
                    /\ UNCHANGED powResult
    /\ UNCHANGED <<challenge, difficulty, ctxDone, cancel, missed>>
    /\ UNCHANGED <<mainVars, spinVars>>

\* the multiple of checkEvery that follows candidate n
nextPoll(n) == ((n \div checkEvery) + 1) * checkEvery

\* the passes of the loop from candidate i to the last one before the next
\* poll, none of them satisfying: each is hashed, and the passes after the
\* first skip the poll as their index is no multiple of checkEvery.  sum and
\* hashed end as the last of them leaves them.
PowHashBatch ==
    /\ powPc = "hash"
    /\ i % checkEvery <= MaxNonce
    /\ i \div checkEvery < MaxBatches
    /\ \E s \in Digests(difficulty) :
        LET fullZeroBytes == difficulty \div 2
            halfNibble == (difficulty % 2 = 1)
        IN  /\ ~hasLeadingZeroNibbles(s, fullZeroBytes, halfNibble)
            /\ sum' = s
            /\ hashed' = challenge \o Itoa(nextPoll(i) - 1)
            /\ tested' = tested + (nextPoll(i) - i)
            /\ i' = nextPoll(i)
            /\ skipped' = (skipped \/ LeadingZeroNibbles(s) >= difficulty)
            /\ powPc' = "check"
    /\ UNCHANGED <<challenge, difficulty, ctxDone, powResult, cancel, missed>>
    /\ UNCHANGED <<mainVars, spinVars>>

\* the caller's context is cancelled while the search runs
PowCancel ==
    /\ powPc \in {"check", "hash"}
    /\ ~ctxDone
    /\ ctxDone' = TRUE
    /\ cancel' = [sig |-> "search", tested |-> tested]
    /\ UNCHANGED missed
    /\ UNCHANGED <<powPc, challenge, difficulty, i, sum, hashed, powResult, tested, skipped>>
    /\ UNCHANGED <<mainVars, spinVars>>

PowNext == PowEntry \/ PowCheckCtx \/ PowHash \/ PowHashBatch \/ PowCancel

----------------------------------------------------------------------------
(* runSolve: start-up *)

flagVars == <<dryRun, autoLoop, count0>>
loginVars == <<loginSite, prompts, validations, loginTrace, pasted, saves>>
epVars == <<powSite, now, st, chal>>
retryVars == <<backoff, calls, sleeps, retryRet, lastResp, lastCall>>
iterVars == <<pNew, answer, sub, lastSolve>>
workVars == <<quotaResp, work>>
obsVars == <<remote, powChecked, powDone>>
histVars == <<tickets, everSubmitted, everPowBeforeSubmit, nCorrect, nDrySolved>>

\* remote call op has returned err (NoError for a success)
Called(op, err) == remote' = [op |-> op, err |-> err]

\* the retry call has returned to runSolve and its handling is over: the
\* locals of puzzleNewWithRetry / submitWithRetry and their history are dropped
RetryLocalsGone ==
    /\ backoff' = 0
    /\ calls' = 0
    /\ sleeps' = <<>>
    /\ retryRet' = "none"
    /\ UNCHANGED <<lastResp, lastCall>>

\* one more remote call made by the running retry call
RetryCounted ==
    /\ calls' = calls + 1
    /\ UNCHANGED <<backoff, sleeps>>

\* return nil, err: the retry call is over and its locals are dropped; of its
\* history it is kept whether the failed call was its first (1) or not (2)
RetryFailed ==
    /\ backoff' = 0
    /\ calls' = IF calls = 0 THEN 1 ELSE 2
    /\ sleeps' = <<>>

\* the config files a run can start from
Disks ==
    { NoDisk,
      OnDisk(appConfig("", "https://site")),
      OnDisk(appConfig("c0", "https://site")),
      OnDisk(appConfig("c0", "")) }

PowIdle ==
    /\ powPc = "entry" /\ challenge = <<>> /\ difficulty = 0 /\ ctxDone = FALSE
    /\ i = 0 /\ sum = Digest(0, 255) /\ hashed = <<>>
    /\ powResult = [kind |-> "none", nonce |-> <<>>]
    /\ tested = 0 /\ skipped = FALSE
    /\ cancel = NoCancel /\ missed = FALSE

Init ==
    /\ PowIdle
    /\ SpinIdle
    /\ pc = "parse"
    /\ count \in 0..MaxCount
    /\ count0 = count
    /\ dryRun \in BOOLEAN
    /\ autoLoop \in BOOLEAN
    /\ disk \in Disks
    /\ solvedCount = 0 /\ cfg = EmptyConfig /\ client = NilClient /\ rotations = 0
    /\ result = Running /\ loginSite = "none" /\ prompts = 0 /\ validations = 0
    /\ powSite = "none" /\ now = 0 /\ st = NoStatus /\ chal = -2
    /\ backoff = 0 /\ calls = 0 /\ sleeps = <<>> /\ retryRet = "none"
    /\ lastResp = NoError /\ lastCall = NoCall
    /\ pNew = NoTicket /\ answer = 0 /\ sub = NoSub /\ tickets = 0
    /\ lastSleep = 0 /\ everSubmitted = FALSE /\ everPowBeforeSubmit = FALSE
    /\ nCorrect = 0 /\ nDrySolved = 0 /\ rec = NoRec
    /\ loginTrace = <<>> /\ persist = NoPersist /\ lastSolve = NoSolve
    /\ quotaResp = NoQuota /\ work = {}
    /\ remote = NoRemote /\ powChecked = FALSE /\ powDone = "none"
    /\ pasted = "" /\ saves = 0

\* runSolve returns err
Fail(why, err) ==
    /\ pc' = "done"
    /\ result' = Failed(why, err)

\* runSolve returns nil
Stop(why) ==
    /\ pc' = "done"
    /\ result' = Stopped(why)

Goto(l) ==
    /\ pc' = l
    /\ result' = result

\* flag parsing and the checks on --count
ParseFlags ==
    /\ pc = "parse"
    /\ IF count <= 0 THEN Fail("flags", OtherError("--count must be > 0"))
       ELSE Goto("load")
    /\ lastSleep' = 0
    /\ UNCHANGED <<count, solvedCount, cfg, disk, persist, client, rotations, rec>>
    /\ UNCHANGED <<flagVars, obsVars, workVars, loginVars, epVars, retryVars, iterVars, histVars, powVars, spinVars>>

\* cfg, err := loadConfig(configPath), then the call of ensureLoginInteractive
LoadConfig ==
    /\ pc = "load"
    /\ \/ /\ Fail("config", OtherError("load config"))
          /\ UNCHANGED <<cfg, loginSite>>
       \/ /\ ~disk.exists
          /\ cfg' = EmptyConfig
          /\ loginSite' = "start"
          /\ Goto("login_entry")
       \/ /\ disk.exists
          /\ IF disk.BaseURL = ""
             THEN /\ Fail("config", OtherError("base_url is required in config"))
                  /\ UNCHANGED <<cfg, loginSite>>
             ELSE /\ cfg' = appConfig(disk.Cookie, disk.BaseURL)
                  /\ loginSite' = "start"
                  /\ Goto("login_entry")
    /\ lastSleep' = 0
    /\ UNCHANGED <<count, solvedCount, disk, persist, client, rotations, rec>>
    /\ UNCHANGED <<prompts, validations, loginTrace, pasted, saves>>
    /\ UNCHANGED <<flagVars, obsVars, workVars, epVars, retryVars, iterVars, histVars, powVars, spinVars>>

----------------------------------------------------------------------------
(* ensureLoginInteractive *)

\* cfg.Cookie = in.Cookie; if in.BaseURL != "" && cfg.BaseURL == "" { cfg.BaseURL = in.BaseURL }
applyMaterial(c, in) ==
    [Cookie |-> in.Cookie,
     BaseURL |-> IF in.BaseURL # "" /\ c.BaseURL = "" THEN in.BaseURL ELSE c.BaseURL]

\* ensureLoginInteractive returns appConfig{}, err; every caller returns err
LoginFail(err) ==
    /\ cfg' = EmptyConfig
    /\ Fail("login", err)
    /\ UNCHANGED <<client, rotations, loginSite>>

\* newAPIClient(cfg) inside ensureLoginInteractive, then go on to nextPc
LoginNewClient(c, nextPc) ==
    IF c.BaseURL = ""
    THEN LoginFail(OtherError("base_url is required"))
    ELSE /\ cfg' = c
         /\ Goto(nextPc)
         /\ UNCHANGED <<client, rotations, loginSite>>

savedAtPrompt_Deferred(d, c) == d

\* saveConfig(configPath, cfg) right after the material is applied: the file
\* d becomes the file of c
savedAtPrompt(d, c) == OnDisk(c)

\* promptAuthMaterial, apply, saveConfig, newAPIClient
PromptApplySave(nextPc) ==
    \/ /\ LoginFail(OtherError("empty input"))
       /\ UNCHANGED <<disk, pasted, saves>>
    \/ \E in \in Pasted :
          LET cfg1 == applyMaterial(cfg, in)
          IN  \/ /\ LoginFail(OtherError("write temp config"))
                 /\ UNCHANGED <<disk, pasted, saves>>
              \/ /\ disk' = savedAtPrompt(disk, cfg1)
                 /\ pasted' = in.Cookie
                 /\ saves' = saves + 1
                 /\ LoginNewClient(cfg1, nextPc)

afterRecovery_Resubmit(site) == IF site = "submit" THEN "submit_call" ELSE "loop_head"

\* `continue` after a recovery from an auth error of a fetch or a submit
afterRecovery(site) == "loop_head"

\* ensureLoginInteractive returns cfg, nil to its caller in runSolve
LoginReturn ==
    /\ UNCHANGED <<cfg, disk>>
    /\ pasted' = "" /\ saves' = 0
    /\ loginSite' = "none"
    /\ IF loginSite = "start"
       THEN /\ Goto("auth_me")
            /\ UNCHANGED <<client, rotations>>
       ELSE \* client, err = newAPIClient(cfg); continue
            IF cfg.BaseURL = ""
            THEN /\ Fail("client", OtherError("base_url is required"))
                 /\ UNCHANGED <<client, rotations>>
            ELSE /\ client' = apiClient(cfg)
                 /\ UNCHANGED rotations
                 /\ Goto(afterRecovery(loginSite))

needPrompt_Never(c) == FALSE

\* cfg.Cookie = strings.TrimSpace(cfg.Cookie); if cfg.Cookie == "" { prompt }
needPrompt(c) == c.Cookie = ""

\* entry of ensureLoginInteractive: prompt if the stored cookie is empty.
\* loginTrace starts with the state of the stored cookie at entry.  The
\* caller's err is overwritten by the call (cfg, err = ensureLoginInteractive).
LoginEntry ==
    /\ pc = "login_entry"
    /\ validations' = 0
    /\ IF needPrompt(cfg)
       THEN /\ prompts' = 1
            /\ loginTrace' = <<IF cfg.Cookie = "" THEN "empty" ELSE "stored", "prompt">>
            /\ PromptApplySave("login_validate1")
       ELSE /\ prompts' = 0
            /\ loginTrace' = <<IF cfg.Cookie = "" THEN "empty" ELSE "stored">>
            /\ UNCHANGED disk
            /\ pasted' = "" /\ saves' = 0
            /\ LoginNewClient(cfg, "login_validate1")
    /\ rec' = IF rec.src # "none" THEN [rec EXCEPT !.logins = @ + 1] ELSE rec
    /\ lastSleep' = 0
    /\ UNCHANGED <<count, solvedCount, persist>>
    /\ backoff' = 0 /\ calls' = 0 /\ sleeps' = <<>> /\ retryRet' = "none"
    /\ lastResp' = NoError
    /\ remote' = NoRemote
    /\ UNCHANGED lastCall
    /\ UNCHANGED <<powChecked, powDone>>
    /\ UNCHANGED <<flagVars, workVars, epVars, iterVars, histVars, powVars, spinVars>>

\* the event a failed validation leaves in the trace: the class of its error
validationEvent(e) == IF isAuthError(e) THEN "auth" ELSE "other"

\* if !isAuthError(err) { return appConfig{}, err } after the first client.authMe
abortsLogin_Never(e) == FALSE

abortsLogin(e) == ~isAuthError(e)

\* first client.authMe; on an auth error prompt again
LoginValidate1 ==
    /\ pc = "login_validate1"
    /\ validations' = validations + 1
    /\ \/ /\ LoginReturn
          /\ Called("authMe", NoError)
          /\ loginTrace' = Append(loginTrace, "ok")
          /\ UNCHANGED prompts
       \/ \E e \in Errors :
             /\ IF abortsLogin(e)
                THEN /\ LoginFail(e)
                     /\ Called("authMe", e)
                     /\ loginTrace' = Append(loginTrace, validationEvent(e))
                     /\ UNCHANGED <<disk, prompts, pasted, saves>>
                ELSE /\ prompts' = prompts + 1
                     /\ remote' = NoRemote
                     /\ loginTrace' = loginTrace \o <<validationEvent(e), "prompt">>
                     /\ PromptApplySave("login_validate2")
    /\ lastSleep' = 0
    /\ UNCHANGED <<count, solvedCount, rec, persist>>
    /\ UNCHANGED <<flagVars, workVars, epVars, retryVars, iterVars, histVars, powVars, spinVars>>
    /\ UNCHANGED <<powChecked, powDone>>

\* second client.authMe
LoginValidate2 ==
    /\ pc = "login_validate2"
    /\ validations' = validations + 1
    /\ \/ /\ LoginReturn
          /\ Called("authMe", NoError)
          /\ loginTrace' = Append(loginTrace, "ok")
       \/ \E e \in Errors :
             /\ IF isAuthError(e)
                THEN /\ LoginFail(OtherError("login still invalid"))
                     /\ remote' = NoRemote
                     /\ loginTrace' = Append(loginTrace, "auth")
                ELSE /\ LoginFail(e)
                     /\ Called("authMe", e)
                     /\ loginTrace' = Append(loginTrace, "other")
             /\ UNCHANGED <<disk, pasted, saves>>
    /\ lastSleep' = 0
    /\ UNCHANGED <<count, solvedCount, rec, prompts, persist>>
    /\ UNCHANGED <<flagVars, workVars, epVars, retryVars, iterVars, histVars, powVars, spinVars>>
    /\ UNCHANGED <<powChecked, powDone>>

----------------------------------------------------------------------------
(* runSolve: who-am-I, quota, solver construction *)

\* a remote call of client cl got a response: the server may rotate the cookie
Exchange(cl) ==
    \E rot \in (IF rotations < MaxRotations THEN BOOLEAN ELSE {FALSE}) :
        /\ client' = afterExchange(cl, rot, rotations)
        /\ rotations' = IF rot THEN rotations + 1 ELSE rotations

\* a remote call of client cl returned error e: an apiError comes with a
\* response, any other error (http.Do failed) leaves the client as it was
ExchangeFor(e, cl) ==
    IF e.api THEN Exchange(cl)
    ELSE /\ client' = cl
         /\ UNCHANGED rotations

\* _ = persistCookieIfChanged(configPath, &cfg, client, log): cfg.Cookie takes
\* the exported cookie, then saveConfig writes the file or fails; the caller
\* drops the error.  persist records how the call returned, the cookie the
\* jar exported and the cookie the file holds when the call returns.
persistCookieIfChanged(cl) ==
    LET newCookie == exportCookieHeader(cl)
    IN  IF newCookie = "" \/ cfg.Cookie = newCookie
        THEN /\ UNCHANGED <<cfg, disk>>
             /\ persist' = [ret |-> "nil", jar |-> newCookie, stored |-> disk.Cookie]
        ELSE /\ cfg' = [cfg EXCEPT !.Cookie = newCookie]
             /\ \/ /\ disk' = OnDisk([cfg EXCEPT !.Cookie = newCookie])
                   /\ persist' = [ret |-> "nil", jar |-> newCookie, stored |-> newCookie]
                \/ /\ UNCHANGED disk
                   /\ persist' = [ret |-> "err", jar |-> newCookie, stored |-> disk.Cookie]

\* client, err := newAPIClient(cfg); me, err := client.authMe(ctx)
StartAuthMe ==
    /\ pc = "auth_me"
    /\ IF cfg.BaseURL = ""
       THEN /\ Fail("client", OtherError("base_url is required"))
            /\ UNCHANGED <<client, rotations, remote>>
            /\ UNCHANGED <<cfg, disk, persist>>
       ELSE \/ /\ Exchange(apiClient(cfg))
               /\ Called("authMe", NoError)
               /\ persistCookieIfChanged(client')
               /\ Goto("quota")
            \/ \E e \in Errors :
                  /\ ExchangeFor(e, apiClient(cfg))
                  /\ Called("authMe", e)
                  /\ IF isAuthError(e) THEN Fail("authMe", OtherError("auth_required"))
                     ELSE Fail("authMe", e)
                  /\ UNCHANGED <<cfg, disk, persist>>
    /\ lastSleep' = 0
    /\ UNCHANGED <<count, solvedCount, rec>>
    /\ UNCHANGED <<flagVars, workVars, loginVars, epVars, retryVars, iterVars, histVars, powVars, spinVars>>
    /\ UNCHANGED <<powChecked, powDone>>

quotaExhausted_Negative(remaining) == remaining < 0

\* if dr.Remaining <= 0 { log.warn("stopping: daily limit exhausted"); return nil }
quotaExhausted(remaining) == remaining <= 0

\* client.dailyRemaining: stop if remaining <= 0; a failed query is only logged
QuotaCheck ==
    /\ pc = "quota"
    /\ \/ /\ Exchange(client)
          /\ Called("dailyRemaining", NoError)
          /\ \E remaining \in {-1, 0, 1} :
                /\ quotaResp' = [got |-> TRUE, Remaining |-> remaining]
                /\ IF quotaExhausted(remaining)
                   THEN Stop("quota") /\ UNCHANGED powSite
                   ELSE Goto("pow_status") /\ powSite' = "start"
       \/ \E e \in Errors :
             /\ ExchangeFor(e, client)
             /\ Called("dailyRemaining", e)
             /\ quotaResp' = NoQuota
             /\ Goto("pow_status")
             /\ powSite' = "start"
    /\ lastSleep' = 0
    /\ UNCHANGED <<count, solvedCount, cfg, disk, persist, rec, now, st, chal>>
    /\ UNCHANGED work
    /\ UNCHANGED <<flagVars, loginVars, retryVars, iterVars, histVars, powVars, spinVars>>
    /\ UNCHANGED <<powChecked, powDone>>

\* solver, err := newAISolver(...); solvedCount := 0
NewSolver ==
    /\ pc = "new_solver"
    /\ \/ Fail("solver", OtherError("missing API key")) /\ UNCHANGED solvedCount
       \/ Fail("solver", OtherError("AI solver not configured")) /\ UNCHANGED solvedCount
       \/ Goto("loop_head") /\ solvedCount' = 0
    /\ lastSleep' = 0
    /\ UNCHANGED <<count, cfg, disk, persist, client, rotations, rec>>
    /\ work' = work \cup {"solver"}
    /\ UNCHANGED quotaResp
    /\ UNCHANGED <<flagVars, obsVars, loginVars, epVars, retryVars, iterVars, histVars, powVars, spinVars>>

----------------------------------------------------------------------------
(* ensurePow *)

powRefreshWindow == 120000  \* 120 * time.Second, in milliseconds

\* the instant at which ensurePow reads the clock, Unix milliseconds
Now0 == 1000000

\* the PoW statuses the service can report: around the refresh window, already
\* expired, and with a zero powExpiresAt (the field missing from the response)
Statuses ==
    { [got |-> TRUE, HasValidPow |-> v, PowExpiresAt |-> x] :
        v \in BOOLEAN,
        x \in {0, Now0 - 1, Now0 + powRefreshWindow - 1,
               Now0 + powRefreshWindow, Now0 + powRefreshWindow + 1} }

needRefresh_NoZeroGuard(s, t) ==
    \/ ~s.HasValidPow
    \/ s.HasValidPow /\ (s.PowExpiresAt - t) < powRefreshWindow

\* need := !st.HasValidPow
\* if st.HasValidPow && st.PowExpiresAt > 0 && exp.Sub(now) < powRefreshWindow { need = true }
needRefresh(s, t) ==
    IF s.HasValidPow /\ s.PowExpiresAt > 0 /\ (s.PowExpiresAt - t) < powRefreshWindow
    THEN TRUE
    ELSE ~s.HasValidPow

PowFail_Retry429(err) ==
    /\ powDone' = "failed"
    /\ IF isRateLimited(err)
       THEN Goto("pow_status") /\ UNCHANGED powSite
       ELSE Fail("pow", err) /\ powSite' = "none"
    /\ UNCHANGED <<backoff, calls, sleeps, retryRet, lastResp>>

\* ensurePow returns err; both callers return it
PowFail(err) ==
    /\ Fail("pow", err)
    /\ powSite' = "none"
    /\ powDone' = "failed"
    /\ UNCHANGED <<backoff, calls, sleeps, retryRet, lastResp>>

\* ensurePow returns nil and the caller persists a changed cookie: after the
\* first call the solver is built, after the pre-submit call submitWithRetry
\* starts with backoff := 2s
PowReturn ==
    /\ powSite' = "none"
    /\ powDone' = "ok"
    /\ persistCookieIfChanged(client')
    /\ IF powSite = "start"
       THEN /\ Goto("new_solver")
            /\ UNCHANGED <<backoff, calls, sleeps, retryRet, lastResp>>
       ELSE /\ Goto("submit_call")
            /\ backoff' = 2
            /\ calls' = 0
            /\ sleeps' = <<>>
            /\ retryRet' = "none"
            /\ lastResp' = NoError

\* st, err := c.powStatus(ctx); now := time.Now(); need is computed
PowStatus ==
    /\ pc = "pow_status"
    /\ everPowBeforeSubmit' = (everPowBeforeSubmit \/ powSite = "submit")
    /\ powChecked' = TRUE
    /\ \/ \E e \in Errors :
             /\ ExchangeFor(e, client)
             /\ Called("powStatus", e)
             /\ PowFail(e)
             /\ UNCHANGED <<now, st>>
       \/ \E s \in Statuses :
             /\ Exchange(client)
             /\ Called("powStatus", NoError)
             /\ UNCHANGED powDone
             /\ st' = s
             /\ now' = Now0
             /\ IF needRefresh(s, Now0) THEN Goto("pow_challenge") ELSE Goto("pow_valid")
             /\ UNCHANGED <<powSite, backoff, calls, sleeps, retryRet, lastResp>>
    /\ lastSleep' = 0
    /\ UNCHANGED <<count, solvedCount, cfg, disk, persist, rec, chal, lastCall>>
    /\ UNCHANGED <<tickets, everSubmitted, nCorrect, nDrySolved>>
    /\ work' = work \cup {"pow"}
    /\ quotaResp' = NoQuota
    /\ UNCHANGED <<flagVars, loginVars, iterVars, powVars, spinVars>>

\* if !need { log.ok("PoW valid, no refresh needed"); return nil }
PowValid ==
    /\ pc = "pow_valid"
    /\ UNCHANGED <<client, rotations>>
    /\ PowReturn
    /\ st' = NoStatus
    /\ lastSleep' = 0
    /\ UNCHANGED <<count, solvedCount, rec, now, chal, lastCall>>
    /\ UNCHANGED <<flagVars, workVars, loginVars, iterVars, histVars, powVars, spinVars>>
    /\ UNCHANGED <<remote, powChecked>>

\* chal, err := c.powChallenge(ctx)
PowChallenge ==
    /\ pc = "pow_challenge"
    /\ \/ \E e \in Errors :
             /\ ExchangeFor(e, client)
             /\ Called("powChallenge", e)
             /\ PowFail(e)
             /\ st' = NoStatus
             /\ UNCHANGED chal
       \/ \E d \in {5, 65} :
             /\ Exchange(client)
             /\ Called("powChallenge", NoError)
             /\ UNCHANGED powDone
             /\ chal' = d
             /\ st' = NoStatus
             /\ Goto("pow_compute")
             /\ UNCHANGED <<powSite, backoff, calls, sleeps, retryRet, lastResp>>
    /\ lastSleep' = 0
    /\ UNCHANGED <<count, solvedCount, cfg, disk, persist, rec, now, lastCall>>
    /\ UNCHANGED <<flagVars, workVars, loginVars, iterVars, histVars, powVars, spinVars>>
    /\ UNCHANGED <<powChecked>>

\* nonce, err := computePowNonce(ctx, chal.Challenge, chal.Difficulty, log);
\* runSolve's context is context.Background(), which is never cancelled
PowCompute ==
    /\ pc = "pow_compute"
    /\ IF invalidDifficulty(chal)
       THEN /\ PowFail(OtherError("invalid difficulty"))
            /\ st' = NoStatus
            /\ chal' = -2
       ELSE /\ Goto("pow_verify")
            /\ UNCHANGED <<st, chal, powSite, powDone, backoff, calls, sleeps, retryRet, lastResp>>
    /\ lastSleep' = 0
    /\ UNCHANGED <<count, solvedCount, cfg, disk, persist, client, rotations, rec, now, lastCall>>
    /\ UNCHANGED <<flagVars, workVars, loginVars, iterVars, histVars, powVars, spinVars>>
    /\ UNCHANGED <<remote, powChecked>>

\* c.powVerify(ctx, chal.Challenge, nonce)
PowVerify ==
    /\ pc = "pow_verify"
    /\ \/ \E e \in Errors :
             /\ ExchangeFor(e, client)
             /\ Called("powVerify", e)
             /\ PowFail(e)
             /\ UNCHANGED <<cfg, disk, persist>>
       \/ /\ Exchange(client)
          /\ Called("powVerify", NoError)
          /\ PowReturn
    /\ st' = NoStatus
    /\ chal' = -2
    /\ lastSleep' = 0
    /\ UNCHANGED <<count, solvedCount, rec, now, lastCall>>
    /\ UNCHANGED <<flagVars, workVars, loginVars, iterVars, histVars, powVars, spinVars>>
    /\ UNCHANGED <<powChecked>>

----------------------------------------------------------------------------
(* runSolve: the loop, with puzzleNewWithRetry and submitWithRetry *)

\* time.Duration(30+rand.Intn(30)) * time.Second: the extremes
Cooldowns == {30, 59}

\* 1*60 + rand.Intn(4*60+1) seconds: the extremes
Pacings == {60, 300}

ticketExhausted_Never(dailyRemaining) == FALSE

\* if pNew.DailyRemaining <= 0 { log.warn("stopping: daily limit exhausted"); return nil }
ticketExhausted(dailyRemaining) == dailyRemaining <= 0

dryRunStop_Never(dry) == FALSE

\* if dryRun { solvedCount++; continue }
dryRunStop(dry) == dry

countAfterCorrect_AnyMode(auto, dailyRemaining, solved, cnt) ==
    IF dailyRemaining > 0 THEN solved + 1 ELSE cnt

\* if autoLoop && sub.DailyRemaining > 0 { ...; count = solvedCount + 1 }
countAfterCorrect(auto, dailyRemaining, solved, cnt) ==
    IF auto /\ dailyRemaining > 0 THEN solved + 1 ELSE cnt

\* for solvedCount < count { ... pNew, err := puzzleNewWithRetry(...): backoff := 2s
loopGoesOn_Inclusive(solved, cnt) == solved <= cnt

\* for solvedCount < count { ... }
loopGoesOn(solved, cnt) == solved < cnt

LoopHead ==
    /\ pc = "loop_head"
    /\ IF loopGoesOn(solvedCount, count)
       THEN /\ Goto("fetch_call")
            /\ powDone' = "none"
            /\ backoff' = 2
            /\ calls' = 0
            /\ sleeps' = <<>>
            /\ retryRet' = "none"
            /\ lastResp' = NoError
            /\ pNew' = NoTicket
            /\ answer' = 0
            /\ sub' = NoSub
            /\ lastSolve' = NoSolve
       ELSE /\ Stop("loop exit")
            /\ UNCHANGED <<backoff, calls, sleeps, retryRet, lastResp, iterVars, powDone>>
    /\ lastSleep' = 0
    /\ UNCHANGED <<count, solvedCount, cfg, disk, persist, client, rotations, rec, lastCall>>
    /\ UNCHANGED <<flagVars, workVars, loginVars, epVars, histVars, powVars, spinVars>>
    /\ UNCHANGED <<remote, powChecked>>

\* one client.puzzleNew call inside puzzleNewWithRetry and, when the retry
\* layer returns, runSolve's handling of the result up to the solver call
FetchCall ==
    /\ pc = "fetch_call"
    /\ lastCall' = [kind |-> "new", pid |-> 0, ans |-> 0, solved |-> solvedCount,
                    cnt |-> count, client |-> client, rec |-> rec]
    /\ powChecked' = FALSE
    /\ \/ /\ tickets < MaxTickets
          /\ Exchange(client)
          /\ Called("puzzleNew", NoError)
          /\ persistCookieIfChanged(client')
          /\ \E dr \in {-1, 0, 1} :
                /\ pNew' = [id |-> tickets + 1, DailyRemaining |-> dr]
                /\ IF ticketExhausted(dr) THEN Stop("ticket quota") ELSE Goto("solve")
          /\ tickets' = tickets + 1
          /\ retryRet' = "ok"
          /\ RetryCounted
          /\ lastResp' = NoError
          /\ rec' = NoRec
          /\ UNCHANGED loginSite
       \/ \E e \in Errors :
             /\ lastResp' = e
             /\ Called("puzzleNew", e)
             /\ ExchangeFor(e, client)
             /\ UNCHANGED <<pNew, tickets, cfg, disk, persist>>
             /\ IF isRateLimited(e)
                THEN /\ Len(sleeps) < Max429
                     /\ RetryCounted
                     /\ Goto("fetch_sleep")
                     /\ rec' = NoRec
                     /\ UNCHANGED <<retryRet, loginSite>>
                ELSE /\ retryRet' = "err"
                     /\ RetryFailed
                     /\ IF isDailyExhaustedError(e)
                        THEN /\ Stop("fetch quota")
                             /\ rec' = NoRec
                             /\ UNCHANGED loginSite
                        ELSE IF isAuthError(e)
                        THEN /\ Goto("login_entry")
                             /\ loginSite' = "fetch"
                             /\ rec' = [src |-> "fetch", solved |-> solvedCount,
                                        cnt |-> count, pid |-> 0, logins |-> 0,
                                        solves |-> 0]
                        ELSE /\ Fail("fetch", e)
                             /\ rec' = NoRec
                             /\ UNCHANGED loginSite
    /\ lastSleep' = 0
    /\ UNCHANGED <<count, solvedCount, answer, sub, lastSolve>>
    /\ UNCHANGED <<prompts, validations, loginTrace, pasted, saves>>
    /\ UNCHANGED <<everSubmitted, everPowBeforeSubmit, nCorrect, nDrySolved>>
    /\ work' = work \cup {"fetch"}
    /\ UNCHANGED quotaResp
    /\ UNCHANGED <<flagVars, epVars, powVars, spinVars>>
    /\ UNCHANGED <<powDone>>

\* time.Sleep(backoff); if backoff < 30s { backoff *= 2 }; continue
FetchSleep ==
    /\ pc = "fetch_sleep"
    /\ sleeps' = Append(sleeps, backoff)
    /\ lastSleep' = backoff
    /\ backoff' = nextBackoff(backoff)
    /\ Goto("fetch_call")
    /\ UNCHANGED <<count, solvedCount, cfg, disk, persist, client, rotations, rec, calls, retryRet, lastResp, lastCall>>
    /\ UNCHANGED <<flagVars, obsVars, workVars, loginVars, epVars, iterVars, histVars, powVars, spinVars>>

\* what the AI service sends back to one Solve call: the content of the answer
\* stream (a stream error, nothing, text holding a grid, other text, a JSON
\* answer object with an empty grid, a JSON answer object with a grid) and the
\* result of the verification request
AIResponses ==
    { [content |-> c, verify |-> v] :
        c \in {"stream error", "", "text grid", "text", "json empty", "json"},
        v \in {"error", "invalid", "valid"} }

SolveReturn(err, verify, how) == [err |-> err, verify |-> verify, how |-> how]

\* Solver.Solve: err is "none" when an answer grid is returned, "unavailable"
\* for ErrAIUnavailable, "failed" for any other error; verify is what
\* verifyAnswer did
SolverSolve(r) ==
    IF r.content = "stream error"
    THEN SolveReturn("unavailable", "not run", "stream error")
    ELSE IF r.content = ""
    THEN SolveReturn("failed", "not run", "no content in response")
    ELSE IF r.content \in {"text grid", "text"}
    THEN \* json.Unmarshal(content, &answer) failed: parseAnswerGrid(content)
         IF r.content = "text"
         THEN SolveReturn("failed", "not run", "not valid json array")
         ELSE SolveReturn("none", "not run", "parseAnswerGrid")
    ELSE IF r.content = "json empty"
    THEN SolveReturn("failed", "not run", "empty answer grid")
    ELSE \* verified, verifyErr := s.verifyAnswer(ctx, p, answer.Answer)
         IF r.verify = "error"
         THEN SolveReturn("none", "error", "answer")
         ELSE IF r.verify = "invalid"
         THEN SolveReturn("failed", "invalid", "AI self-verification failed")
         ELSE SolveReturn("none", "valid", "answer")

isAIUnavailable_Never(o) == FALSE

\* errors.Is(err, ErrAIUnavailable)
isAIUnavailable(o) == o.err = "unavailable"

countAfterSolveFailure_Keep(solved, cnt) == cnt

\* count = solvedCount + 1 after a failed solve in auto mode
countAfterSolveFailure(solved, cnt) == solved + 1

countAfterIncorrect_Extend(solved, cnt) == cnt + 1

\* count = solvedCount + 1 after an incorrect answer in auto mode
countAfterIncorrect(solved, cnt) == solved + 1

preSubmit_NoPow == "submit_call"

\* if err := ensurePow(ctx, client, log); err != nil { return err }, before submitWithRetry
preSubmit == "pow_status"

skipsFailure_Always(auto) == TRUE

\* if autoLoop { ...skipping...; time.Sleep(waitDur); count = solvedCount + 1; continue }
skipsFailure(auto) == auto

submitRejected_UnlessCorrect(s) == ~s.Success /\ ~s.Correct

\* if !sub.Success { return fmt.Errorf("submit failed: %s", sub.Message) }
submitRejected(s) == ~s.Success

\* fmt.Errorf("submit failed: %s", sub.Message)
SubmitFailed(msg) == [api |-> FALSE, StatusCode |-> 0, Message |-> <<"submit failed:", msg>>]

\* the dailyRemaining of a submit response; the code reads it only from an
\* accepted submission
SubmitRemaining(success) == IF success THEN {0, 1} ELSE {0}

\* the messages of a submit response
SubmitMessages(success) == IF success THEN {"accepted"} ELSE {"rejected", "expired"}

\* answer, err := solver.Solve(ctx, pNew.Puzzle) and its handling, the
\* dry-run branch included
Solve ==
    /\ pc = "solve"
    /\ powDone' = "none"
    /\ rec' = IF rec.src # "none" THEN [rec EXCEPT !.solves = @ + 1] ELSE rec
    /\ \E r \in AIResponses :
          LET o == SolverSolve(r)
          IN  /\ lastSolve' = o
              /\ IF o.err = "none"
                 THEN /\ answer' = pNew.id
                      /\ lastSleep' = 0
                      /\ IF dryRunStop(dryRun)
                         THEN /\ solvedCount' = solvedCount + 1
                              /\ nDrySolved' = nDrySolved + 1
                              /\ Goto("loop_head")
                              /\ UNCHANGED powSite
                         ELSE /\ Goto(preSubmit)
                              /\ powSite' = "submit"
                              /\ UNCHANGED <<solvedCount, nDrySolved>>
                      /\ UNCHANGED count
                 ELSE IF isAIUnavailable(o)
                 THEN /\ Fail("solve", OtherError("AI unavailable"))
                      /\ lastSleep' = 0
                      /\ UNCHANGED <<count, solvedCount, nDrySolved, answer, powSite>>
                 ELSE /\ IF skipsFailure(autoLoop)
                         THEN /\ \E w \in Cooldowns : lastSleep' = w
                              /\ count' = countAfterSolveFailure(solvedCount, count)
                              /\ Goto("loop_head")
                         ELSE /\ Fail("solve", OtherError("ai solve failed"))
                              /\ lastSleep' = 0
                              /\ UNCHANGED count
                      /\ UNCHANGED <<solvedCount, nDrySolved, answer, powSite>>
    /\ UNCHANGED <<cfg, disk, persist, client, rotations, pNew, sub, now, st, chal>>
    /\ UNCHANGED <<tickets, everSubmitted, everPowBeforeSubmit, nCorrect>>
    /\ work' = work \cup {"solve"}
    /\ UNCHANGED quotaResp
    /\ RetryLocalsGone
    /\ UNCHANGED <<flagVars, loginVars, powVars, spinVars>>
    /\ UNCHANGED <<remote, powChecked>>

\* one client.puzzleSubmit call inside submitWithRetry and, when the retry
\* layer returns, runSolve's handling of the outcome up to the loop head
SubmitCall ==
    /\ pc = "submit_call"
    /\ powChecked' = FALSE
    /\ everSubmitted' = TRUE
    /\ lastCall' = [kind |-> "submit", pid |-> pNew.id, ans |-> answer,
                    solved |-> solvedCount, cnt |-> count, client |-> client,
                    rec |-> rec]
    /\ \/ \E success \in BOOLEAN, correct \in BOOLEAN :
          \E msg \in SubmitMessages(success), dr \in SubmitRemaining(success) :
             /\ Exchange(client)
             /\ Called("puzzleSubmit", NoError)
             /\ persistCookieIfChanged(client')
             /\ sub' = [got |-> TRUE, Success |-> success, Correct |-> correct,
                        DailyRemaining |-> dr, Message |-> msg]
             /\ retryRet' = "ok"
             /\ RetryCounted
             /\ lastResp' = NoError
             /\ rec' = NoRec
             /\ nCorrect' = IF success /\ correct THEN nCorrect + 1 ELSE nCorrect
             /\ UNCHANGED loginSite
             /\ IF submitRejected(sub')
                THEN /\ Fail("submit failed", SubmitFailed(msg))
                     /\ lastSleep' = 0
                     /\ UNCHANGED <<count, solvedCount>>
                ELSE IF correct
                THEN /\ solvedCount' = solvedCount + 1
                     /\ count' = countAfterCorrect(autoLoop, dr, solvedCount + 1, count)
                     /\ IF autoLoop /\ dr > 0
                        THEN \E w \in Pacings : lastSleep' = w
                        ELSE lastSleep' = 0
                     /\ Goto("loop_head")
                ELSE IF skipsFailure(autoLoop)
                THEN /\ \E w \in Cooldowns : lastSleep' = w
                     /\ count' = countAfterIncorrect(solvedCount, count)
                     /\ Goto("loop_head")
                     /\ UNCHANGED solvedCount
                ELSE /\ Fail("incorrect", OtherError("submitted answer was incorrect"))
                     /\ lastSleep' = 0
                     /\ UNCHANGED <<count, solvedCount>>
       \/ \E e \in Errors :
             /\ lastResp' = e
             /\ Called("puzzleSubmit", e)
             /\ lastSleep' = 0
             /\ ExchangeFor(e, client)
             /\ UNCHANGED <<sub, count, solvedCount, nCorrect, cfg, disk, persist>>
             /\ IF isRateLimited(e)
                THEN /\ Len(sleeps) < Max429
                     /\ RetryCounted
                     /\ Goto("submit_sleep")
                     /\ rec' = NoRec
                     /\ UNCHANGED <<retryRet, loginSite>>
                ELSE /\ retryRet' = "err"
                     /\ RetryFailed
                     /\ IF isAuthError(e)
                        THEN /\ Goto("login_entry")
                             /\ loginSite' = "submit"
                             /\ rec' = [src |-> "submit", solved |-> solvedCount,
                                        cnt |-> count, pid |-> pNew.id, logins |-> 0,
                                        solves |-> 0]
                        ELSE /\ Fail("submit", e)
                             /\ rec' = NoRec
                             /\ UNCHANGED loginSite
    /\ UNCHANGED <<pNew, answer, lastSolve>>
    /\ UNCHANGED <<prompts, validations, loginTrace, pasted, saves>>
    /\ UNCHANGED <<tickets, everPowBeforeSubmit, nDrySolved>>
    /\ work' = work \cup {"submit"}
    /\ UNCHANGED quotaResp
    /\ UNCHANGED <<flagVars, epVars, powVars, spinVars>>
    /\ UNCHANGED <<powDone>>

\* time.Sleep(backoff); if backoff < 30s { backoff *= 2 }; continue
SubmitSleep ==
    /\ pc = "submit_sleep"
    /\ sleeps' = Append(sleeps, backoff)
    /\ lastSleep' = backoff
    /\ backoff' = nextBackoff(backoff)
    /\ Goto("submit_call")
    /\ UNCHANGED <<count, solvedCount, cfg, disk, persist, client, rotations, rec, calls, retryRet, lastResp, lastCall>>
    /\ UNCHANGED <<flagVars, obsVars, workVars, loginVars, epVars, iterVars, histVars, powVars, spinVars>>

Next ==
    \/ ParseFlags \/ LoadConfig
    \/ LoginEntry \/ LoginValidate1 \/ LoginValidate2
    \/ StartAuthMe \/ QuotaCheck
    \/ PowStatus \/ PowValid \/ PowChallenge \/ PowCompute \/ PowVerify
    \/ NewSolver \/ LoopHead
    \/ FetchCall \/ FetchSleep \/ Solve \/ SubmitCall \/ SubmitSleep

vars == <<powVars, mainVars, spinVars>>

Spec == Init /\ [][Next]_vars


SpecPow == PowInit /\ [][PowNext]_vars

----------------------------------------------------------------------------
(* spinner.Start and spinner.Stop on a terminal (isTTY), called from the
   goroutines in Callers.  The code between s.mu.Lock() and s.mu.Unlock() has
   no blocking operation and is one step.  s.stop and s.done are written by
   Start after it released the mutex: a Stop that runs meanwhile reads the
   value of before or of after each write, as the steps interleave. *)

\* s.mu.Lock(); if s.active { return }; s.active = true; ...; s.mu.Unlock()
StartLock(t) ==
    /\ spin.panicked = "none"
    /\ spin.pc[t] = "idle"
    /\ IF spinner.active
       THEN UNCHANGED <<spinner, spin>>
       ELSE /\ Len(spin.anims) + Cardinality({u \in Callers : spin.pc[u] \in StartPcs})
                 < MaxStarts
            /\ spinner' = [spinner EXCEPT !.active = TRUE]
            /\ spin' = [spin EXCEPT !.pc[t] = "make_stop"]
    /\ UNCHANGED <<powVars, mainVars>>

\* s.stop = make(chan struct{})
StartMakeStop(t) ==
    /\ spin.panicked = "none"
    /\ spin.pc[t] = "make_stop"
    /\ spinner' = [spinner EXCEPT !.stop = spin.made + 1]
    /\ spin' = [spin EXCEPT !.made = @ + 1, !.pc[t] = "make_done"]
    /\ UNCHANGED <<powVars, mainVars>>

\* s.done = make(chan struct{})
StartMakeDone(t) ==
    /\ spin.panicked = "none"
    /\ spin.pc[t] = "make_done"
    /\ spinner' = [spinner EXCEPT !.done = spin.made + 1]
    /\ spin' = [spin EXCEPT !.made = @ + 1, !.pc[t] = "go"]
    /\ UNCHANGED <<powVars, mainVars>>

\* go func() { ... }(); Start returns
StartGo(t) ==
    /\ spin.panicked = "none"
    /\ spin.pc[t] = "go"
    /\ spin' = [spin EXCEPT
                  !.anims = Append(@, [st |-> "spawned", done |-> Nil, watch |-> Nil, i |-> 0]),
                  !.pc[t] = "idle"]
    /\ UNCHANGED spinner
    /\ UNCHANGED <<powVars, mainVars>>

\* s.mu.Lock(); if !s.active { return }; s.active = false; stopCh := s.stop;
\* doneCh := s.done; s.mu.Unlock(); if s.isTTY && stopCh != nil
StopLock(t) ==
    /\ spin.panicked = "none"
    /\ spin.pc[t] = "idle"
    /\ IF ~spinner.active
       THEN UNCHANGED <<spinner, spin>>
       ELSE /\ spinner' = [spinner EXCEPT !.active = FALSE]
            /\ IF spinner.stop # Nil
               THEN spin' = [spin EXCEPT !.stopCh[t] = spinner.stop,
                                         !.doneCh[t] = spinner.done,
                                         !.pc[t] = "close"]
               ELSE UNCHANGED spin
    /\ UNCHANGED <<powVars, mainVars>>

\* close(stopCh): closing a closed channel panics
StopClose(t) ==
    /\ spin.panicked = "none"
    /\ spin.pc[t] = "close"
    /\ IF spin.stopCh[t] \in spin.closed
       THEN spin' = [spin EXCEPT !.panicked = "stop"]
       ELSE spin' = [spin EXCEPT !.closed = @ \cup {spin.stopCh[t]}, !.pc[t] = "wait"]
    /\ UNCHANGED spinner
    /\ UNCHANGED <<powVars, mainVars>>

\* <-doneCh; fmt.Print(...); Stop returns.  A receive from a nil channel
\* blocks for ever.
StopWait(t) ==
    /\ spin.panicked = "none"
    /\ spin.pc[t] = "wait"
    /\ spin.doneCh[t] \in spin.closed
    /\ spin' = [spin EXCEPT !.pc[t] = "idle", !.stopCh[t] = Nil, !.doneCh[t] = Nil]
    /\ UNCHANGED spinner
    /\ UNCHANGED <<powVars, mainVars>>

\* the goroutine begins: defer close(s.done) evaluates s.done, i := 0, and
\* the first select evaluates s.stop
AnimBegin(g) ==
    /\ spin.panicked = "none"
    /\ g <= Len(spin.anims)
    /\ spin.anims[g].st = "spawned"
    /\ spin' = [spin EXCEPT !.anims[g] = [st |-> "select", done |-> spinner.done,
                                          watch |-> spinner.stop, i |-> 0]]
    /\ UNCHANGED spinner
    /\ UNCHANGED <<powVars, mainVars>>

\* case <-ticker.C: print a frame under the mutex, i++; the next select
\* evaluates s.stop again
AnimTick(g) ==
    /\ spin.panicked = "none"
    /\ g <= Len(spin.anims)
    /\ spin.anims[g].st = "select"
    /\ spin.anims[g].i < MaxTicks
    /\ spin' = [spin EXCEPT !.anims[g].i = @ + 1, !.anims[g].watch = spinner.stop]
    /\ UNCHANGED spinner
    /\ UNCHANGED <<powVars, mainVars>>

\* case <-s.stop: return, which runs the deferred close of the done channel
AnimStop(g) ==
    /\ spin.panicked = "none"
    /\ g <= Len(spin.anims)
    /\ spin.anims[g].st = "select"
    /\ spin.anims[g].watch \in spin.closed
    /\ IF spin.anims[g].done \in spin.closed
       THEN spin' = [spin EXCEPT !.panicked = "done"]
       ELSE spin' = [spin EXCEPT !.closed = @ \cup {spin.anims[g].done},
                                 !.anims[g].st = "exited"]
    /\ UNCHANGED spinner
    /\ UNCHANGED <<powVars, mainVars>>

SpinInit == MainIdle /\ PowIdle /\ SpinIdle

SpinNext ==
    \/ \E t \in Callers :
          \/ StartLock(t) \/ StartMakeStop(t) \/ StartMakeDone(t) \/ StartGo(t)
          \/ StopLock(t) \/ StopClose(t) \/ StopWait(t)
    \/ \E g \in Anims : AnimBegin(g) \/ AnimTick(g) \/ AnimStop(g)

SpecSpinner == SpinInit /\ [][SpinNext]_vars

\* every remote call and every solver call returns, every sleep ends and
\* every prompt is answered: runSolve takes its next step whenever it has one
SpecLive == Init /\ [][Next]_vars /\ WF_vars(Next)

----------------------------------------------------------------------------
(* Properties of computePowNonce *)

\* C1: a returned nonce is the decimal string of the smallest n whose digest
\* has at least `difficulty` leading zero nibbles: candidates 0..n-1 were all
\* hashed and failed, candidate n was hashed last and passes.
C1_SmallestNonce ==
    /\ ~skipped
    /\ powResult.kind = "nonce" =>
          /\ difficulty \in 0..64
          /\ Atoi(powResult.nonce) = i
          /\ tested = i + 1
          /\ hashed = challenge \o powResult.nonce
          /\ LeadingZeroNibbles(sum) >= difficulty

\* a two-digit nonce is returned for an odd difficulty after ten failures
C1_Witness ==
    /\ powResult.kind = "nonce"
    /\ difficulty = 5
    /\ powResult.nonce = <<"1", "0">>
    /\ LeadingZeroNibbles(sum) = 5

----------------------------------------------------------------------------
(* Properties of the retry layer *)

Min(a, b) == IF a < b THEN a ELSE b

\* C2: the sleeps of one retry call are 2s, 4s, 8s, ... doubling up to a
\* ceiling of 30s, and no sleep exceeds 30s.
C2_BackoffCappedAt30 ==
    \A k \in 1..Len(sleeps) :
        /\ sleeps[k] <= 30
        /\ sleeps[k] = IF k = 1 THEN 2 ELSE Min(2 * sleeps[k - 1], 30)

\* 429 responses are the api errors with status 429
Is429(err) == err.api /\ err.StatusCode = 429

\* C3: a retry call that received N 429 responses and then a success has made
\* N+1 calls and N sleeps, one sleep after each 429, and returns the success;
\* a 429 never makes the retry call give up, whatever N is.
C3_RetryCallsAndSleeps ==
    /\ pc \in {"fetch_call", "submit_call"} => calls = Len(sleeps)
    /\ pc \in {"fetch_sleep", "submit_sleep"} =>
          calls = Len(sleeps) + 1 /\ Is429(lastResp)
    /\ retryRet = "ok" => calls = Len(sleeps) + 1 /\ lastResp = NoError
    /\ retryRet = "err" => ~Is429(lastResp)

\* submitWithRetry returns a success after Max429 rate-limited responses
C3_Witness ==
    /\ retryRet = "ok"
    /\ lastCall.kind = "submit"
    /\ Len(sleeps) = Max429
    /\ calls = Max429 + 1

----------------------------------------------------------------------------
(* Properties of ensurePow *)

\* the refresh condition as the freshness policy is worded
RefreshWanted(s, t) ==
    \/ ~s.HasValidPow
    \/ s.HasValidPow /\ s.PowExpiresAt - t < powRefreshWindow

\* the refresh condition with the guard on a positive powExpiresAt
RefreshWantedPositive(s, t) ==
    \/ ~s.HasValidPow
    \/ s.HasValidPow /\ s.PowExpiresAt > 0 /\ s.PowExpiresAt - t < powRefreshWindow

\* C4 (as claimed): ensurePow refreshes iff hasValidPow is false, or it is
\* true and expiresAt - now < 120s, for every value of expiresAt.
C4_RefreshIffWithinWindow ==
    /\ pc = "pow_challenge" => RefreshWanted(st, now)
    /\ pc = "pow_valid" => ~RefreshWanted(st, now)

\* C4 (amended): ensurePow refreshes iff hasValidPow is false, or it is true,
\* powExpiresAt is positive and expiresAt - now < 120s; a valid PoW whose
\* powExpiresAt is zero is not refreshed.
C4_RefreshPolicy ==
    /\ pc = "pow_challenge" => st.got /\ RefreshWantedPositive(st, now)
    /\ pc = "pow_valid" => st.got /\ ~RefreshWantedPositive(st, now)

\* a valid PoW with powExpiresAt = 0 is left alone
C4_Witness ==
    /\ pc = "pow_valid"
    /\ st.HasValidPow
    /\ st.PowExpiresAt = 0

----------------------------------------------------------------------------
(* Properties of the orchestration loop *)

\* an error with status 401 or 403
Is401or403(err) == err.api /\ err.StatusCode \in {401, 403}

\* a message carrying one of the quota-exhausted markers
HasQuotaMarker(msg) ==
    \E k \in 1..Len(msg) : msg[k] \in {MarkUsedUp, MarkCompleted, MarkTomorrow}

LoginPcs == {"login_entry", "login_validate1", "login_validate2"}

\* C5 (as claimed): after an auth error on submit and one re-authentication,
\* the next puzzle operation is a submit of the same puzzle id and answer.
C5_SubmitRetriedAfterReauth ==
    lastCall.rec.src = "submit" =>
        /\ lastCall.kind = "submit"
        /\ lastCall.pid = lastCall.rec.pid
        /\ lastCall.rec.logins = 1
        /\ lastCall.solved = lastCall.rec.solved

\* C5 (amended): an auth error on submit never ends the run by itself; it
\* starts one re-authentication, after which the loop iteration restarts: the
\* next puzzle operation is a puzzleNew fetch, issued without calling the
\* solver again and with solvedCount and count unchanged.
C5_SubmitRecoveryRestartsIteration ==
    /\ result.why = "submit" => ~Is401or403(result.err)
    /\ rec.src = "submit" =>
          /\ pc \in LoginPcs \cup {"loop_head", "fetch_call", "done"}
          /\ pc \in {"loop_head", "fetch_call"} => rec.logins = 1 /\ client = apiClient(cfg)
          /\ pc = "done" => result.status = "error" /\ result.why \in {"login", "client"}
          /\ rec.solves = 0
          /\ solvedCount = rec.solved
          /\ count = rec.cnt
    /\ lastCall.rec.src = "submit" =>
          /\ lastCall.kind = "new"
          /\ lastCall.rec.logins = 1
          /\ lastCall.rec.solves = 0
          /\ lastCall.solved = lastCall.rec.solved
          /\ lastCall.cnt = lastCall.rec.cnt

\* the fetch that follows a submit-side recovery of puzzle 1 got a new ticket
C5_Witness ==
    /\ lastCall.rec.src = "submit"
    /\ lastCall.rec.pid = 1
    /\ lastCall.kind = "new"
    /\ pNew.id = 2

\* C6: a 401/403 on fetch that is not quota-exhausted never ends the run by
\* itself; ensureLoginInteractive is invoked once, the client is rebuilt from
\* the returned credential, and the next puzzle operation is a puzzleNew call
\* with solvedCount and count unchanged and no solve or submit in between.
C6_FetchRecovery ==
    /\ result.why = "fetch" => ~Is401or403(result.err)
    /\ rec.src = "fetch" =>
          /\ pc \in LoginPcs \cup {"loop_head", "fetch_call", "done"}
          /\ pc \in {"loop_head", "fetch_call"} => rec.logins = 1 /\ client = apiClient(cfg)
          /\ pc = "done" => result.status = "error" /\ result.why \in {"login", "client"}
          /\ rec.solves = 0
          /\ solvedCount = rec.solved
          /\ count = rec.cnt
          /\ ~HasQuotaMarker(lastResp.Message)
    /\ lastCall.rec.src = "fetch" =>
          /\ lastCall.kind = "new"
          /\ lastCall.rec.logins = 1
          /\ lastCall.rec.solves = 0
          /\ lastCall.solved = lastCall.rec.solved
          /\ lastCall.cnt = lastCall.rec.cnt

\* the retried fetch is made by a client carrying the newly pasted cookie
C6_Witness ==
    /\ lastCall.rec.src = "fetch"
    /\ lastCall.kind = "new"
    /\ lastCall.client.Cookie = "p2"
    /\ retryRet = "ok"

\* C7: a 403 on fetch whose message carries a quota-exhausted marker stops
\* the run successfully: no re-authentication, no solve, no submit, and
\* solvedCount as it was when the fetch was issued.
C7_QuotaExhaustedStopsRun ==
    (lastCall.kind = "new" /\ lastResp.api /\ lastResp.StatusCode = 403
        /\ HasQuotaMarker(lastResp.Message)) =>
        /\ pc = "done"
        /\ result = Stopped("fetch quota")
        /\ loginSite = "none"
        /\ rec = NoRec
        /\ answer = 0
        /\ sub = NoSub
        /\ solvedCount = lastCall.solved

\* the run stopped on the "come back tomorrow" message after one solved puzzle
C7_Witness ==
    /\ result = Stopped("fetch quota")
    /\ lastResp = ApiError(403, <<MarkTomorrow>>)
    /\ solvedCount = 1

\* C8: in auto-loop mode every successful termination is at a quota
\* checkpoint that observed exhaustion: the initial quota query, a
\* quota-exhausted fetch error, a ticket with dailyRemaining <= 0, or a
\* correct submission reporting dailyRemaining <= 0.
C8_AutoStopsOnlyOnExhaustion ==
    (autoLoop /\ result.status = "ok") =>
        \/ result.why \in {"quota", "fetch quota", "ticket quota"}
        \/ /\ result.why = "loop exit"
           /\ sub.got /\ sub.Success /\ sub.Correct /\ sub.DailyRemaining <= 0

\* C9: in non-auto mode count is never modified, and a run that ends by
\* leaving the loop has solvedCount equal to the initial count and to the
\* number of correct submissions (of solved puzzles in dry-run).
C9_NonAutoCompletion ==
    ~autoLoop =>
        /\ count = count0
        /\ result = Stopped("loop exit") =>
              /\ solvedCount = count0
              /\ solvedCount = nCorrect + nDrySolved
              /\ dryRun => nCorrect = 0
              /\ ~dryRun => nDrySolved = 0

\* a non-auto run of count 2 completed with two correct submissions
C9_Witness ==
    /\ ~autoLoop
    /\ result = Stopped("loop exit")
    /\ solvedCount = 2
    /\ nCorrect = 2

\* C10: in dry-run no submit call and no pre-submit PoW check is ever made,
\* and a successful solve increments solvedCount by one and goes straight to
\* the next iteration without sleeping and without touching count.
C10_DryRunNeverSubmits ==
    /\ [](dryRun => /\ ~everSubmitted
                    /\ ~everPowBeforeSubmit
                    /\ pc \notin {"submit_call", "submit_sleep"}
                    /\ nCorrect = 0)
    /\ [][(dryRun /\ pc = "solve" /\ answer' # 0) =>
            /\ solvedCount' = solvedCount + 1
            /\ pc' = "loop_head"
            /\ lastSleep' = 0
            /\ count' = count]_vars

\* a dry run has solved its second puzzle and is back at the loop head
C10_Witness ==
    /\ dryRun
    /\ pc = "loop_head"
    /\ answer = 2
    /\ solvedCount = 2
    /\ ~everSubmitted

----------------------------------------------------------------------------
(* Properties of the outcome handling in the loop *)

\* runSolve has returned: no step is taken from the final position
RunIsOver == [][pc # "done"]_vars

\* the last submission was accepted and correct and reported no quota left
CorrectAtZero == sub.got /\ sub.Success /\ sub.Correct /\ sub.DailyRemaining <= 0

\* C11: in auto mode, once a submission came back correct with
\* dailyRemaining <= 0, nothing was slept and the next step ends the run
\* successfully (the loop is left), whatever the target count is: no further
\* remote call is made.
C11_AutoStopsAtZeroRemaining ==
    /\ []((autoLoop /\ CorrectAtZero) => pc \in {"loop_head", "done"} /\ lastSleep = 0)
    /\ [][(autoLoop /\ CorrectAtZero) =>
            /\ pc' = "done"
            /\ result' = Stopped("loop exit")
            /\ lastSleep' = 0]_vars

\* a cooldown is 30 to 59 seconds
IsCooldown(d) == d \in 30..59

\* the handling of a failed solve in auto mode, as far as both readings agree
SolveFailureHandled ==
    [][(autoLoop /\ pc = "solve" /\ lastSolve'.err = "failed") =>
            /\ IsCooldown(lastSleep')
            /\ count' = solvedCount + 1
            /\ solvedCount' = solvedCount
            /\ answer' = 0
            /\ pc' = "loop_head"]_vars

\* C12 (as claimed): in auto mode a failed solve (other than AI unavailable)
\* is followed by one cooldown and count = solvedCount + 1, and the loop ends
\* after that: no further puzzle is fetched.
C12_SolveFailureEndsLoop ==
    /\ SolveFailureHandled
    /\ [][(autoLoop /\ pc = "loop_head" /\ lastSolve.err = "failed") => pc' = "done"]_vars

\* C12 (amended): in auto mode a failed solve (other than AI unavailable) is
\* followed by one cooldown and count = solvedCount + 1, and the loop goes on:
\* the next step starts a puzzleNew fetch with the failed ticket and its answer
\* dropped; a submit is only ever made for the ticket of the current
\* iteration, after its solve returned an answer.
C12_SolveFailureSkipsPuzzle ==
    /\ SolveFailureHandled
    /\ [][(autoLoop /\ pc = "loop_head" /\ lastSolve.err = "failed") =>
            /\ pc' = "fetch_call"
            /\ pNew' = NoTicket
            /\ answer' = 0]_vars
    /\ [](pc \in {"submit_call", "submit_sleep"} =>
            /\ lastSolve.err = "none"
            /\ answer = pNew.id
            /\ pNew.id = tickets)

\* after the first solve failed in an auto run started with --count 2, the
\* target is 1 and the second ticket is being solved
C12_Witness ==
    /\ autoLoop /\ ~dryRun
    /\ pc = "solve"
    /\ pNew.id = 2
    /\ "submit" \notin work
    /\ count0 = 2 /\ count = 1 /\ solvedCount = 0

\* the last submission was accepted and reported an incorrect answer
Incorrect(sb) == sb.got /\ sb.Success /\ ~sb.Correct

\* C13 (as claimed): in auto mode an incorrect answer leaves solvedCount
\* unchanged, sleeps one cooldown, makes the target the previous target plus
\* one (so the target never decreases) and goes back to the loop head.
C13_IncorrectExtendsTarget ==
    [][(autoLoop /\ pc = "submit_call" /\ Incorrect(sub')) =>
            /\ solvedCount' = solvedCount
            /\ IsCooldown(lastSleep')
            /\ count' = count + 1
            /\ count' >= count
            /\ pc' = "loop_head"]_vars

\* C13 (amended): in auto mode an incorrect answer leaves solvedCount
\* unchanged, sleeps one cooldown and sets the target to solvedCount + 1, which
\* is never more than the previous target; the loop then goes on with a new
\* fetch.
C13_IncorrectResetsTarget ==
    /\ [][(autoLoop /\ pc = "submit_call" /\ Incorrect(sub')) =>
            /\ solvedCount' = solvedCount
            /\ IsCooldown(lastSleep')
            /\ count' = solvedCount + 1
            /\ count' <= count
            /\ pc' = "loop_head"]_vars
    /\ [][(autoLoop /\ pc = "loop_head" /\ Incorrect(sub)) => pc' = "fetch_call"]_vars

\* an incorrect first answer lowered the target of an auto run from 2 to 1
C13_Witness ==
    /\ autoLoop
    /\ pc = "loop_head"
    /\ Incorrect(sub)
    /\ count0 = 2 /\ count = 1 /\ solvedCount = 0
    /\ lastSleep = 59

----------------------------------------------------------------------------
(* Properties of ensureLoginInteractive *)

\* the event sequences of one invocation: the stored cookie at entry, a prompt
\* if it was empty, then the validations with at most one more prompt
LoginTraces ==
    { h \o t : h \in {<<"stored">>, <<"empty", "prompt">>},
               t \in {<<>>, <<"ok">>, <<"other">>, <<"auth", "prompt">>,
                      <<"auth", "prompt", "ok">>, <<"auth", "prompt", "auth">>,
                      <<"auth", "prompt", "other">>} }

Occurrences(tr, evs) == Cardinality({k \in 1..Len(tr) : tr[k] \in evs})

StillInvalid == OtherError("login still invalid")

\* C14: one invocation makes at most two prompts and two validations; an empty
\* stored cookie is prompted for before the first validation; an auth error
\* of the first validation is followed by one more prompt and validation; an
\* auth error of the second one ends the run with "login still invalid"; the
\* credential is returned only when the last validation succeeded.
C14_LoginAtMostTwoRounds ==
    /\ prompts <= 2 /\ validations <= 2
    /\ loginTrace = <<>> \/ loginTrace \in LoginTraces
    /\ prompts = Occurrences(loginTrace, {"prompt"})
    /\ validations = Occurrences(loginTrace, {"ok", "auth", "other"})
    /\ (result.why = "login" /\ result.err = StillInvalid) <=>
          (Len(loginTrace) >= 3 /\ pc = "done"
           /\ SubSeq(loginTrace, Len(loginTrace) - 2, Len(loginTrace))
                = <<"auth", "prompt", "auth">>)
    /\ (loginTrace # <<>> /\ loginSite = "none") => loginTrace[Len(loginTrace)] = "ok"
    /\ (loginTrace # <<>> /\ loginTrace[Len(loginTrace)] # "ok" /\ pc \notin LoginPcs) =>
          pc = "done" /\ result.status = "error" /\ result.why = "login"

\* started without a cookie, prompted twice, rejected twice
C14_Witness ==
    /\ loginTrace = <<"empty", "prompt", "auth", "prompt", "auth">>
    /\ prompts = 2 /\ validations = 2
    /\ result = Failed("login", StillInvalid)

----------------------------------------------------------------------------
(* Properties of the cookie persistence *)

\* C15: when persistCookieIfChanged returns without error and the jar holds a
\* cookie, the config file holds that cookie: a write that failed is made
\* again by the next call.
C15_PersistWritesUntilStored ==
    (persist.ret = "nil" /\ persist.jar # "") => persist.stored = persist.jar

----------------------------------------------------------------------------
(* Properties of Solver.Solve and of the stops and failures of the loop *)

\* C16: an answer returned by Solve was validated by verifyAnswer with
\* valid = true; so was every answer that is submitted.
C16_AnswersAreVerified ==
    /\ answer # 0 => lastSolve.verify = "valid"
    /\ pc \in {"submit_call", "submit_sleep"} => lastSolve.verify = "valid"

\* C17: when the initial quota query reports remaining <= 0 the run has
\* stopped successfully and has done no work: no PoW call, no solver, no
\* fetch, no solve, no submit; and nothing follows.
C17_ExhaustedQuotaStopsBeforeWork ==
    /\ []((quotaResp.got /\ quotaResp.Remaining <= 0) =>
            /\ pc = "done"
            /\ result = Stopped("quota")
            /\ work = {}
            /\ tickets = 0 /\ lastCall = NoCall /\ answer = 0 /\ ~everSubmitted)
    /\ RunIsOver

\* the quota query reported exactly zero and the run stopped
C17_Witness ==
    /\ quotaResp = [got |-> TRUE, Remaining |-> 0]
    /\ result = Stopped("quota")
    /\ work = {}

\* C18: a fetched ticket with dailyRemaining <= 0 stops the run successfully,
\* in auto mode or not: the solver was not called for it, nothing was
\* submitted for it and solvedCount is as it was when the fetch was issued.
C18_ExhaustedTicketStopsRun ==
    /\ []((pNew.id # 0 /\ pNew.DailyRemaining <= 0) =>
            /\ pc = "done"
            /\ result = Stopped("ticket quota")
            /\ lastSolve = NoSolve /\ answer = 0 /\ sub = NoSub
            /\ lastCall.kind = "new"
            /\ solvedCount = lastCall.solved)
    /\ RunIsOver

\* an auto run stopped on its second ticket after one solved puzzle
C18_Witness ==
    /\ autoLoop
    /\ pNew = [id |-> 2, DailyRemaining |-> 0]
    /\ solvedCount = 1
    /\ result = Stopped("ticket quota")

\* C19: when Solve returns ErrAIUnavailable the run ends with an error, in
\* auto mode or not: no sleep, count and solvedCount untouched, no answer,
\* and nothing follows.
C19_AIUnavailableAborts ==
    /\ [](lastSolve.err = "unavailable" =>
            /\ pc = "done"
            /\ result = Failed("solve", OtherError("AI unavailable"))
            /\ lastSleep = 0
            /\ answer = 0)
    /\ [][(pc = "solve" /\ lastSolve'.err = "unavailable") =>
            /\ count' = count
            /\ solvedCount' = solvedCount
            /\ UNCHANGED <<tickets, everSubmitted, st, lastCall>>]_vars
    /\ RunIsOver

\* an auto run aborted while solving its second ticket
C19_Witness ==
    /\ autoLoop
    /\ lastSolve.err = "unavailable"
    /\ pNew.id = 2
    /\ result.status = "error"

\* C20: a submit response with success = false ends the run with the error
\* "submit failed: <server message>", in auto mode or not and whatever
\* correct is: solvedCount is not incremented, nothing is slept and nothing
\* follows.
C20_RejectedSubmitIsFatal ==
    /\ []((sub.got /\ ~sub.Success) =>
            /\ pc = "done"
            /\ result = Failed("submit failed", SubmitFailed(sub.Message))
            /\ lastSleep = 0
            /\ lastCall.kind = "submit"
            /\ solvedCount = lastCall.solved)
    /\ RunIsOver

\* an auto run failed on success = false although correct was true
C20_Witness ==
    /\ autoLoop
    /\ sub.got /\ ~sub.Success /\ sub.Correct
    /\ sub.Message = "rejected"
    /\ result = Failed("submit failed", SubmitFailed("rejected"))

----------------------------------------------------------------------------
(* Properties of the failure handling outside auto mode and in ensurePow *)

\* C21: outside auto mode a failed solve and an incorrect answer (success =
\* true, correct = false) end the run with an error at once: nothing is
\* slept, solvedCount and count are as they were when the last puzzle call
\* was issued, count is still --count, and the last puzzle call is the one
\* of this ticket, so no further puzzle was fetched.
C21_NonAutoFailuresAreFatal ==
    /\ (~autoLoop /\ lastSolve.err # "none") =>
          /\ pc = "done"
          /\ result.status = "error" /\ result.why = "solve"
          /\ lastSleep = 0
          /\ count = count0
          /\ lastCall.kind = "new" /\ pNew.id = tickets
          /\ lastCall.cnt = count /\ lastCall.solved = solvedCount
          /\ answer = 0 /\ sub = NoSub
    /\ (~autoLoop /\ Incorrect(sub)) =>
          /\ pc = "done"
          /\ result = Failed("incorrect", OtherError("submitted answer was incorrect"))
          /\ lastSleep = 0
          /\ count = count0
          /\ lastCall.kind = "submit" /\ lastCall.pid = pNew.id /\ pNew.id = tickets
          /\ lastCall.cnt = count /\ lastCall.solved = solvedCount

\* a run with --count 2 solved its first puzzle and failed on an incorrect
\* answer to the second
C21_Witness ==
    /\ ~autoLoop
    /\ Incorrect(sub)
    /\ count0 = 2 /\ solvedCount = 1 /\ pNew.id = 2
    /\ result.status = "error"

\* the remote calls of ensurePow
PowOps == {"powStatus", "powChallenge", "powVerify"}

\* C22: a failure inside ensurePow (status query, challenge request, nonce
\* search or verify; a 401/403 or a 429 included; before the loop or before a
\* submit) ends the run with that error: the call is not made again, nothing
\* is slept, ensureLoginInteractive is not entered, and no puzzleNew or
\* puzzleSubmit call was made since the PoW status check.
C22_PowFailureIsFatal ==
    /\ (remote.op \in PowOps /\ remote.err # NoError) =>
          /\ powDone = "failed"
          /\ result = Failed("pow", remote.err)
    /\ powDone = "failed" =>
          /\ pc = "done"
          /\ result.status = "error" /\ result.why = "pow"
          /\ remote.op \in PowOps
          /\ remote.err = NoError => result.err = OtherError("invalid difficulty")
          /\ lastSleep = 0 /\ sleeps = <<>>
          /\ loginSite = "none" /\ rec = NoRec
          /\ powChecked
          /\ sub = NoSub

\* the verify call of the pre-submit ensurePow was answered 403
C22_Witness ==
    /\ remote = [op |-> "powVerify", err |-> ApiError(403, <<"forbidden">>)]
    /\ powDone = "failed"
    /\ answer # 0 /\ answer = pNew.id
    /\ lastCall.kind = "new"
    /\ result.status = "error"

\* C23 (as claimed): a 429 response to any remote call of the run is followed
\* by a backoff sleep and a retry, and no run ends with an error that is a
\* 429 response.
C23_RateLimitNeverSurfaces ==
    /\ Is429(remote.err) => pc \in {"fetch_sleep", "submit_sleep"}
    /\ result.status = "error" => ~Is429(result.err)

\* a 429 answered to one of the two calls wrapped by the retry layer
RetriedRateLimit == Is429(remote.err) /\ remote.op \in {"puzzleNew", "puzzleSubmit"}

\* C24 (as claimed): a remote call that failed with anything but a retried
\* 429 or an auth error (a transport failure, an unreadable response, any
\* other status; the quota query included) has ended the run with an error.
C24_OtherFailuresAreFatal ==
    (remote.err # NoError /\ ~isAuthError(remote.err) /\ ~RetriedRateLimit) =>
        /\ pc = "done"
        /\ result.status = "error"

\* C25 (as claimed): a quota-exhausted response (403 with a quota marker) to
\* a puzzleNew or a puzzleSubmit call stops the run successfully: it starts
\* no re-authentication and is no error.
C25_QuotaExhaustedAlwaysStops ==
    (remote.op \in {"puzzleNew", "puzzleSubmit"} /\ isDailyExhaustedError(remote.err)) =>
        /\ pc = "done"
        /\ result.status = "ok"
        /\ loginSite = "none"

----------------------------------------------------------------------------
(* Properties of the difficulty range of computePowNonce *)

\* C26: with a difficulty below 0 or above 64 computePowNonce has returned
\* the invalid-parameter error as its first step, whatever the challenge and
\* even with a cancelled context: no candidate was hashed.  With a difficulty
\* in 0..64 hasLeadingZeroNibbles reads the digest only at indexes 0..31.
C26_DifficultyRange ==
    /\ (difficulty \notin 0..64 /\ powPc # "entry") =>
          /\ powPc = "done"
          /\ powResult.kind = "invalid"
          /\ tested = 0 /\ i = 0 /\ hashed = <<>>
    /\ (difficulty \in 0..64 /\ tested > 0) =>
          IndexesRead(sum, difficulty \div 2, difficulty % 2 = 1) \subseteq 0..(Size - 1)

\* difficulty 65 was refused although the context was already cancelled
C26_Witness ==
    /\ difficulty = 65
    /\ ctxDone
    /\ powResult.kind = "invalid"
    /\ tested = 0

----------------------------------------------------------------------------
(* Properties of the order of PoW checks, solves and puzzle calls *)

\* C27 (as claimed): before every puzzleNew and every puzzleSubmit call
\* ensurePow has queried the PoW status since the previous puzzleNew /
\* puzzleSubmit call (or since the run began).  Stated for the first call of
\* each puzzleNewWithRetry / submitWithRetry, leaving the retries after a 429
\* aside.
C27_PowFreshBeforeEveryCall ==
    (pc \in {"fetch_call", "submit_call"} /\ calls = 0) => powChecked

\* C28: while a submit is being made, and once a submit response is held,
\* the ensurePow call made in this iteration after the solver returned its
\* answer has returned nil; when that ensurePow call failed the run is over
\* and the last puzzle call is the fetch of the ticket: nothing was submitted
\* for it.
C28_SubmitOnlyAfterPow ==
    /\ (pc \in {"submit_call", "submit_sleep"} \/ sub.got) =>
          /\ powDone = "ok"
          /\ answer # 0 /\ answer = pNew.id
    /\ (powDone = "failed" /\ answer # 0) =>
          /\ pc = "done"
          /\ result.status = "error"
          /\ lastCall.kind = "new"
          /\ pNew.id = tickets
          /\ sub = NoSub

\* the second ticket is about to be submitted after the PoW was refreshed
C28_Witness ==
    /\ pc = "submit_call"
    /\ calls = 0
    /\ powDone = "ok"
    /\ remote = [op |-> "powVerify", err |-> NoError]
    /\ pNew.id = 2

\* C29: a solve and a submit work on the ticket fetched in this iteration,
\* which is the last ticket the server handed out; every puzzleSubmit call
\* carries that ticket's id and the solver's answer for it; and while a
\* submit is being made every earlier puzzleSubmit call for the ticket was
\* answered 429, so a ticket gets at most one call that ends otherwise.
C29_OneTicketPerIteration ==
    /\ pc = "solve" =>
          /\ pNew.id # 0 /\ pNew.id = tickets
          /\ lastCall.kind = "new"
          /\ answer = 0 /\ sub = NoSub
    /\ pc \in {"submit_call", "submit_sleep"} =>
          /\ pNew.id # 0 /\ pNew.id = tickets
          /\ answer = pNew.id
          /\ sub = NoSub
          /\ lastCall.kind = "submit" => (lastCall.pid = pNew.id /\ Is429(lastResp))
    /\ lastCall.kind = "submit" =>
          /\ lastCall.pid = tickets
          /\ lastCall.ans = lastCall.pid

\* outside auto mode the second ticket is about to be submitted with nothing
\* solved yet: the submit of the first ticket ended in an auth error
C29_Witness ==
    /\ ~autoLoop
    /\ pc = "submit_call"
    /\ calls = 0
    /\ everSubmitted
    /\ pNew.id = 2 /\ answer = 2
    /\ solvedCount = 0

\* C30: when a puzzleNew or puzzleSubmit call returns an error that is not a
\* 429 (a 403 quota-exhausted error, an auth error, a transport error), the
\* retry call returns that error at once: it is the error runSolve handles,
\* no sleep follows it, and the failed call is the one call made after the
\* last sleep, since every call made before it was followed by a sleep and a
\* sleep only ever follows a 429.
C30_OtherErrorsReturnAtOnce ==
    /\ pc \in {"fetch_call", "submit_call"} => (calls = Len(sleeps) /\ retryRet = "none")
    /\ pc \in {"fetch_sleep", "submit_sleep"} => (Is429(lastResp) /\ retryRet = "none")
    /\ (remote.op \in {"puzzleNew", "puzzleSubmit"} /\ remote.err # NoError
                                                    /\ ~Is429(remote.err)) =>
          /\ retryRet = "err"
          /\ lastResp = remote.err
    /\ retryRet = "err" =>
          /\ lastResp # NoError /\ ~Is429(lastResp)
          /\ lastResp = remote.err
          /\ remote.op = (IF lastCall.kind = "new" THEN "puzzleNew" ELSE "puzzleSubmit")
          /\ lastSleep = 0 /\ sleeps = <<>>
          /\ pc \in {"done", "login_entry"}
          /\ pc = "login_entry" => isAuthError(lastResp)
          /\ (pc = "done" /\ result.status = "error") => result.err = lastResp
          /\ (pc = "done" /\ result.status = "ok") =>
                (lastCall.kind = "new" /\ isDailyExhaustedError(lastResp))

\* puzzleNewWithRetry returned a 403 quota-exhausted error after at least one
\* 429
C30_Witness ==
    /\ retryRet = "err"
    /\ calls = 2
    /\ lastCall.kind = "new"
    /\ lastResp = ApiError(403, <<MarkTomorrow>>)
    /\ result.status = "ok"

----------------------------------------------------------------------------
(* Properties of a validation that fails inside ensureLoginInteractive *)

\* C31: a who-am-I call of ensureLoginInteractive that fails with an error
\* other than 401/403 ends the recovery there, at the first validation as at
\* the second: it is the last event of the invocation (no prompt and no
\* validation follows it), the config file was written only by the prompts
\* that came before it, and the run ends with that very error.
C31_NonAuthValidationAborts ==
    Occurrences(loginTrace, {"other"}) > 0 =>
        /\ loginTrace[Len(loginTrace)] = "other"
        /\ Occurrences(loginTrace, {"other"}) = 1
        /\ pc = "done"
        /\ remote.op = "authMe" /\ remote.err # NoError
        /\ ~isAuthError(remote.err)
        /\ result = Failed("login", remote.err)
        /\ cfg = EmptyConfig
        /\ prompts = Occurrences(loginTrace, {"prompt"})
        /\ validations = Occurrences(loginTrace, {"ok", "auth", "other"})
        /\ saves = prompts

\* a rate-limit answer to the second validation, after a prompt
C31_Witness ==
    /\ loginTrace = <<"stored", "auth", "prompt", "other">>
    /\ prompts = 1 /\ validations = 2 /\ saves = 1
    /\ result = Failed("login", ApiError(429, <<>>))
    /\ remote = [op |-> "authMe", err |-> ApiError(429, <<>>)]

\* the cookies a prompt can return
PastedCookies == {in.Cookie : in \in Pasted}

\* C32: the material of a prompt is applied to cfg and written to the config
\* file before the who-am-I call that validates it, at the first prompt as at
\* the second; so when that validation ends the run, with "login still
\* invalid" or with another error, the config file holds the cookie pasted
\* last, which was never accepted by the server.
C32_PastedCookieStoredBeforeValidation ==
    /\ (pc \in {"login_validate1", "login_validate2"}
        /\ loginTrace[Len(loginTrace)] = "prompt") =>
          /\ pasted \in PastedCookies
          /\ cfg.Cookie = pasted
          /\ disk = OnDisk(cfg)
    /\ (pc = "done" /\ result.why = "login" /\ Len(loginTrace) >= 2
        /\ loginTrace[Len(loginTrace) - 1] = "prompt"
        /\ loginTrace[Len(loginTrace)] \in {"auth", "other"}) =>
          /\ pasted \in PastedCookies
          /\ disk.exists /\ disk.Cookie = pasted
    /\ (result.why = "login" /\ result.err = StillInvalid) =>
          /\ pasted \in PastedCookies
          /\ disk.exists /\ disk.Cookie = pasted

\* two prompts, both pasted cookies rejected: the file holds the second one
C32_Witness ==
    /\ loginTrace = <<"empty", "prompt", "auth", "prompt", "auth">>
    /\ result = Failed("login", StillInvalid)
    /\ pasted = "p2" /\ disk.exists /\ disk.Cookie = "p2"

----------------------------------------------------------------------------
(* Properties of the cancellation of computePowNonce *)

\* C33: for a difficulty in 0..64, computePowNonce polls ctx at the top of
\* the passes whose index is a multiple of checkEvery, candidate 0 included,
\* before that candidate is hashed, and nowhere else: a Cancelled result
\* arises only there, with no nonce; a ctx cancelled on entry gives Cancelled
\* with no candidate hashed, whatever the difficulty; and after a cancellation
\* during the search at most checkEvery further candidates are hashed.
C33_CancellationPolledPerBatch ==
    /\ ~missed
    /\ powResult.kind = "cancelled" =>
          /\ ctxDone /\ cancel.sig # "never"
          /\ i % checkEvery = 0
          /\ tested = i
          /\ powResult.nonce = <<>>
    /\ cancel.sig = "entry" =>
          /\ tested = 0
          /\ powResult.kind \in {"none", "invalid", "cancelled"}
          /\ (powPc = "done" /\ difficulty \in 0..64) => powResult.kind = "cancelled"
    /\ cancel.sig = "search" => tested - cancel.tested <= checkEvery
    /\ (ctxDone /\ powPc \in {"check", "hash"}) => i <= nextPoll(cancel.tested)

\* cancelled right after the poll of candidate 0: a whole batch is hashed
\* before the poll of candidate checkEvery aborts the search
C33_Witness ==
    /\ powResult.kind = "cancelled"
    /\ cancel = [sig |-> "search", tested |-> 0]
    /\ i = checkEvery /\ tested = checkEvery

----------------------------------------------------------------------------
(* Properties of the loop counters *)

\* the positions of runSolve inside one pass of the solve loop
IterationPcs == {"fetch_call", "fetch_sleep", "solve", "submit_call", "submit_sleep"}

\* C34: in every mode solvedCount stays within 0..count; the loop body is
\* entered, and a puzzle fetched, only while solvedCount < count; and
\* solvedCount is the number of correct submissions (success and correct)
\* plus the number of dry-run solves, at most one for each puzzle fetched.
C34_SolvedCountWithinCount ==
    /\ 0 <= solvedCount /\ solvedCount <= count
    /\ pc \in IterationPcs => solvedCount < count
    /\ lastCall.kind = "new" => lastCall.solved < lastCall.cnt
    /\ solvedCount = nCorrect + nDrySolved
    /\ solvedCount <= tickets
    /\ dryRun => nCorrect = 0
    /\ ~dryRun => nDrySolved = 0

\* an auto run whose target was moved holds two correct submissions
C34_Witness ==
    /\ autoLoop /\ count0 = 1
    /\ solvedCount = 2 /\ count = 2 /\ nCorrect = 2
    /\ result = Stopped("loop exit")

----------------------------------------------------------------------------
(* Termination of runSolve *)

\* C35: a non-auto run whose every call returns, and whose retry calls get
\* finitely many 429 answers each, eventually ends with success or an error.
C35_NonAutoRunTerminates == ~autoLoop => <>(pc = "done")

----------------------------------------------------------------------------
(* Properties of the spinner *)

\* C36: on a terminal, however Start and Stop calls of different goroutines
\* interleave, no stop channel is closed twice, and whenever active is false
\* and no Start or Stop call is in progress no animation goroutine is left
\* running.
C36_SpinnerStopsItsGoroutine ==
    /\ spin.panicked # "stop"
    /\ (~spinner.active /\ \A t \in Callers : spin.pc[t] = "idle") =>
          \A g \in 1..Len(spin.anims) : spin.anims[g].st = "exited"
====
